---- MODULE Spec2Model ----
(***************************************************************************)
(* Strategy weight engine, portfolio simulator and performance metrics of  *)
(* pairportfolio (src/python/backtest_engine.py,                           *)
(* src/python/performance_metrics.py).                                     *)
(*                                                                         *)
(* Floating point values are modelled as extended rationals <<n, d>>:      *)
(*   d > 0   the rational n/d in lowest terms,                             *)
(*   <<0,0>> NaN,  <<1,0>> +inf,  <<-1,0>> -inf.                           *)
(* +, -, *, / and the comparisons follow IEEE-754 as numpy applies it      *)
(* (x/0 = inf, 0/0 = NaN, NaN compares false).  Sums and products are      *)
(* exact while their terms fit MaxInt and are rounded beyond that; the     *)
(* comparisons are exact.  Square roots and fractional powers are exact    *)
(* where the result is rational and are otherwise rounded to 1/FPScale;    *)
(* magnitudes above FPClamp are reported as FPClamp.                       *)
(***************************************************************************)
EXTENDS Integers, Sequences, FiniteSets, TLC

----------------------------------------------------------------------------
(* Extended rational arithmetic                                            *)

RECURSIVE GCD(_, _)
GCD(a, b) == IF b = 0 THEN a ELSE GCD(b, a % b)

Abs(i) == IF i < 0 THEN -i ELSE i

Sign(i) == IF i < 0 THEN -1 ELSE IF i > 0 THEN 1 ELSE 0

Min2(a, b) == IF a <= b THEN a ELSE b

Max2(a, b) == IF a >= b THEN a ELSE b

NaN == <<0, 0>>

PosInf == <<1, 0>>

NegInf == <<-1, 0>>

Zero == <<0, 1>>

One == <<1, 1>>

Reduced(n, d, g) == <<n \div g, d \div g>>

\* n/d in lowest terms for d > 0
NormPos(n, d) == Reduced(n, d, GCD(Abs(n), d))

Norm(n, d) == IF d = 0 THEN <<Sign(n), 0>> ELSE NormPos(Sign(d) * n, Abs(d))

Q(n, d) == Norm(n, d)

IsNaN(x) == x = NaN

IsInf(x) == x[2] = 0 /\ x[1] # 0

IsFinite(x) == x[2] > 0

Neg(x) == <<-x[1], x[2]>>

\* the largest integer of the arithmetic the model is evaluated in
MaxInt == (2^30 - 1) * 2 + 1

Fits(a, b) == a = 0 \/ b = 0 \/ Abs(a) <= MaxInt \div Abs(b)

AddFits(a, b) == Abs(a) <= MaxInt - Abs(b)

\* rounding of a value whose terms have grown too long: one bit is dropped
Coarser(x) == NormPos(Sign(x[1]) * (Abs(x[1]) \div 2), x[2] \div 2)

RECURSIVE AddR(_, _)
\* x + y over the common denominator x[2] * p = y[2] * q
AddScaled(x, y, p, q) ==
    IF Fits(x[1], p) /\ Fits(y[1], q) /\ Fits(x[2], p) /\ AddFits(x[1] * p, y[1] * q)
    THEN Norm(x[1] * p + y[1] * q, x[2] * p)
    ELSE IF x[2] = 1 /\ y[2] = 1 THEN <<Sign(x[1]) * MaxInt, 1>>
    ELSE IF x[2] >= y[2] THEN AddR(Coarser(x), y)
    ELSE AddR(x, Coarser(y))

AddOver(x, y, g) == AddScaled(x, y, y[2] \div g, x[2] \div g)

AddR(x, y) == AddOver(x, y, GCD(x[2], y[2]))

Add(x, y) ==
    IF IsNaN(x) \/ IsNaN(y) THEN NaN
    ELSE IF IsInf(x) THEN (IF IsInf(y) /\ y # x THEN NaN ELSE x)
    ELSE IF IsInf(y) THEN y
    ELSE AddR(x, y)

Sub(x, y) == Add(x, Neg(y))

RECURSIVE MulR(_, _)
\* (a/c) * (b/d) for the cross-cancelled terms of x and y
MulTerms(x, y, a, b, c, d) ==
    IF Fits(a, b) /\ Fits(c, d) THEN <<a * b, c * d>>
    ELSE IF x[2] = 1 /\ y[2] = 1 THEN <<Sign(a) * Sign(b) * MaxInt, 1>>
    ELSE IF x[2] >= y[2] THEN MulR(Coarser(x), y)
    ELSE MulR(x, Coarser(y))

MulOver(x, y, g1, g2) ==
    MulTerms(x, y, x[1] \div g1, y[1] \div g2, x[2] \div g2, y[2] \div g1)

MulR(x, y) == MulOver(x, y, GCD(Abs(x[1]), y[2]), GCD(Abs(y[1]), x[2]))

Mul(x, y) ==
    IF IsNaN(x) \/ IsNaN(y) THEN NaN
    ELSE IF (IsInf(x) /\ y[1] = 0) \/ (IsInf(y) /\ x[1] = 0) THEN NaN
    ELSE IF IsInf(x) \/ IsInf(y) THEN <<Sign(x[1]) * Sign(y[1]), 0>>
    ELSE MulR(x, y)

\* 1/x as numpy computes it: 1/0 = inf, 1/inf = 0
Inv(x) ==
    IF IsNaN(x) THEN NaN
    ELSE IF x[1] = 0 THEN PosInf
    ELSE IF x[1] < 0 THEN <<-x[2], -x[1]>>
    ELSE <<x[2], x[1]>>

\* numpy float division: never raises
Div(x, y) ==
    IF IsNaN(x) \/ IsNaN(y) THEN NaN
    ELSE IF y[1] = 0 /\ y[2] # 0 THEN
        (IF x[1] = 0 THEN NaN ELSE <<Sign(x[1]), 0>>)
    ELSE Mul(x, Inv(y))

\* the order of a/b and c/d (b, d > 0) by their continued fractions:
\* -1, 0 or 1
RECURSIVE Cmp(_, _, _, _)
Cmp(a, b, c, d) ==
    IF a \div b < c \div d THEN -1
    ELSE IF a \div b > c \div d THEN 1
    ELSE IF a % b = 0 /\ c % d = 0 THEN 0
    ELSE IF a % b = 0 THEN -1
    ELSE IF c % d = 0 THEN 1
    ELSE Cmp(d, c % d, b, a % b)

Lt(x, y) ==
    /\ ~IsNaN(x)
    /\ ~IsNaN(y)
    /\ x # y
    /\ IF IsInf(x) THEN x = NegInf
       ELSE IF IsInf(y) THEN y = PosInf
       ELSE Cmp(x[1], x[2], y[1], y[2]) = -1

Gt(x, y) == Lt(y, x)

Le(x, y) == ~IsNaN(x) /\ ~IsNaN(y) /\ (x = y \/ Lt(x, y))

Ge(x, y) == Le(y, x)

Eq(x, y) == ~IsNaN(x) /\ ~IsNaN(y) /\ x = y

AbsQ(x) == <<Abs(x[1]), x[2]>>

\* the sum of the entries of a sequence that are not NaN (pandas skipna=True)
RECURSIVE SumSkipNa(_)
SumSkipNa(s) ==
    IF s = <<>> THEN Zero
    ELSE IF IsNaN(Head(s)) THEN SumSkipNa(Tail(s))
    ELSE Add(Head(s), SumSkipNa(Tail(s)))

\* the product of the entries of a sequence that are not NaN
RECURSIVE ProdSkipNa(_)
ProdSkipNa(s) ==
    IF s = <<>> THEN One
    ELSE IF IsNaN(Head(s)) THEN ProdSkipNa(Tail(s))
    ELSE Mul(Head(s), ProdSkipNa(Tail(s)))

\* plain Python sum() / numpy sum: NaN propagates
RECURSIVE SumSeq(_)
SumSeq(s) == IF s = <<>> THEN Zero ELSE Add(Head(s), SumSeq(Tail(s)))

\* a list, array or column holds its values: they are computed once
List(s) == SubSeq(s, 1, Len(s))

NotNaN(x) == ~IsNaN(x)

----------------------------------------------------------------------------
(* Square root and power                                                   *)

FPScale == 10 * 10 * 10

FPClamp == 2000 * FPScale

RECURSIVE ISqrtFrom(_, _, _)
\* the largest r in lo..hi with r*r <= k (lo*lo <= k)
ISqrtFrom(k, lo, hi) ==
    IF lo >= hi THEN lo
    ELSE LET mid == (lo + hi + 1) \div 2
         IN  IF mid * mid <= k THEN ISqrtFrom(k, mid, hi)
             ELSE ISqrtFrom(k, lo, mid - 1)

ISqrt(k) == ISqrtFrom(k, 0, Min2(k, 46340))

IsSquare(k) == ISqrt(k) * ISqrt(k) = k

RECURSIVE SqrtR(_)
\* the root of a finite positive value that is not a square, to 1/FPScale
SqrtR(x) ==
    IF x[1] <= MaxInt \div (FPScale * FPScale)
    THEN Norm(Max2(ISqrt((x[1] * FPScale * FPScale) \div x[2]), 1), FPScale)
    ELSE IF x[2] = 1 THEN <<ISqrt(x[1]), 1>>
    ELSE SqrtR(Coarser(x))

\* np.sqrt: NaN for a negative argument, no exception
Sqrt(x) ==
    IF IsNaN(x) THEN NaN
    ELSE IF x[1] < 0 THEN NaN
    ELSE IF x[2] = 0 THEN PosInf
    ELSE IF IsSquare(x[1]) /\ IsSquare(x[2]) THEN <<ISqrt(x[1]), ISqrt(x[2])>>
    ELSE SqrtR(x)

\* fixed-point product of two non-negative values in units of 1/FPScale
MulFP(a, b) ==
    IF a = 0 \/ b = 0 THEN 0
    ELSE IF a > MaxInt \div b THEN FPClamp
    ELSE Min2(FPClamp, (a * b) \div FPScale)

RECURSIVE PowFP(_, _)
\* a^k by repeated squaring
PowFP(a, k) ==
    IF k = 0 THEN FPScale
    ELSE LET h == PowFP(a, k \div 2)
         IN  IF k % 2 = 0 THEN MulFP(h, h) ELSE MulFP(a, MulFP(h, h))

RECURSIVE RootFPFrom(_, _, _, _)
\* the largest r in lo..hi with r^b <= a
RootFPFrom(a, b, lo, hi) ==
    IF lo >= hi THEN lo
    ELSE LET mid == (lo + hi + 1) \div 2
         IN  IF PowFP(mid, b) <= a THEN RootFPFrom(a, b, mid, hi)
             ELSE RootFPFrom(a, b, lo, mid - 1)

\* a value above 1 stays above 1 and a value below 1 stays below 1
KeepSide(x, r) ==
    IF Gt(x, One) THEN Max2(r, FPScale + 1)
    ELSE IF Lt(x, One) THEN Min2(r, FPScale - 1)
    ELSE FPScale

ToFP(x) == KeepSide(x, Min2(FPClamp, (Min2(x[1], MaxInt \div FPScale) * FPScale) \div x[2]))

\* the product of y and z stays within the range of exact terms
PFits(y, z) == y[1] <= 46340 \div Max2(z[1], 1) /\ y[2] <= 46340 \div z[2]

\* hh = x^(2 * (k \div 2)) or NaN: x^k or NaN
PowOdd(x, k, hh) ==
    IF k % 2 = 0 \/ IsNaN(hh) THEN hh
    ELSE IF ~PFits(hh, x) THEN NaN
    ELSE Mul(hh, x)

\* h = x^(k \div 2) or NaN: x^k or NaN
PowSquare(x, k, h) == PowOdd(x, k, IF IsNaN(h) \/ ~PFits(h, h) THEN NaN ELSE Mul(h, h))

RECURSIVE PowExact(_, _)
\* x^k for finite x >= 0 by repeated squaring; NaN once a term leaves the range
PowExact(x, k) == IF k = 0 THEN One ELSE PowSquare(x, k, PowExact(x, k \div 2))

\* x^a for the rounded root r of x
PowRounded(x, a, r) == Norm(KeepSide(x, PowFP(r, a)), FPScale)

\* the exact power e where there is one, the rounded power otherwise
PowOr(x, a, b, e) ==
    IF ~IsNaN(e) THEN e
    ELSE PowRounded(x, a, IF b = 1 THEN ToFP(x)
                          ELSE KeepSide(x, RootFPFrom(ToFP(x), b, 0, FPClamp)))

\* x ** (a/b) for a float x >= 0 and a/b > 0
PowPos(x, a, b) ==
    IF x[2] = 0 THEN PosInf
    ELSE IF x[1] = 0 THEN Zero
    ELSE IF x = One THEN One
    ELSE PowOr(x, a, b, IF b = 1 THEN PowExact(x, a) ELSE NaN)

\* (-x) ** a from x ** a for a whole number a
PowSigned(a, v) == IF a % 2 = 0 THEN v ELSE Neg(v)

\* x ** (a/b) for a/b in lowest terms
PowLowest(x, a, b) ==
    IF IsNaN(x) THEN NaN
    ELSE IF x[1] >= 0 THEN PowPos(x, a, b)
    ELSE IF b # 1 THEN NaN
    ELSE PowSigned(a, PowPos(Neg(x), a, b))

PowOver(x, num, den, g) == PowLowest(x, num \div g, den \div g)

\* numpy float64 ** float: a negative base gives NaN unless the exponent is a whole number
Pow(x, num, den) == PowOver(x, num, den, GCD(num, den))

----------------------------------------------------------------------------
(* pandas / numpy reductions on a sequence of floats                       *)

dropna(s) == SelectSeq(s, NotNaN)

AddOne(s) == List([i \in 1..Len(s) |-> Add(One, s[i])])

\* Series.mean(): NaN entries skipped, NaN for no entry
Mean(s) ==
    LET c == dropna(s)
    IN  IF Len(c) = 0 THEN NaN ELSE Div(SumSeq(c), Q(Len(c), 1))

SqDev(s, m) == List([i \in 1..Len(s) |-> Mul(Sub(s[i], m), Sub(s[i], m))])

\* Series.var(ddof): NaN when count - ddof <= 0
VarDdof(s, ddof) ==
    LET c == dropna(s)
    IN  IF Len(c) - ddof <= 0 THEN NaN
        ELSE Div(SumSeq(SqDev(c, Mean(c))), Q(Len(c) - ddof, 1))

\* Series.std(): sample standard deviation (ddof = 1)
Std(s) == Sqrt(VarDdof(s, 1))

RECURSIVE InsertSorted(_, _)
InsertSorted(x, s) ==
    IF s = <<>> THEN <<x>>
    ELSE IF Le(x, Head(s)) THEN <<x>> \o s
    ELSE <<Head(s)>> \o InsertSorted(x, Tail(s))

RECURSIVE sort_values(_)
sort_values(s) == IF s = <<>> THEN <<>> ELSE InsertSorted(Head(s), sort_values(Tail(s)))

\* Series.quantile(num/den): linear interpolation between order statistics
Quantile(s, num, den) ==
    LET c == sort_values(dropna(s))
        n == Len(c)
        lo == ((n - 1) * num) \div den
        fr == Q(((n - 1) * num) % den, den)
    IN  IF n = 0 THEN NaN
        ELSE IF lo + 2 > n THEN c[n]
        ELSE Add(c[lo + 1], Mul(fr, Sub(c[lo + 2], c[lo + 1])))

\* Series.min(): NaN for no entry
RECURSIVE MinSeq(_)
MinSeq(s) ==
    IF s = <<>> THEN NaN
    ELSE IF Len(s) = 1 THEN s[1]
    ELSE LET m == MinSeq(Tail(s)) IN IF Lt(Head(s), m) THEN Head(s) ELSE m

IsNeg(x) == Lt(x, Zero)

IsPos(x) == Gt(x, Zero)

\* (1 + s).cumprod()
RECURSIVE CumProdFrom(_, _)
CumProdFrom(s, acc) ==
    IF s = <<>> THEN <<>>
    ELSE LET v == Mul(acc, Add(One, Head(s))) IN <<v>> \o CumProdFrom(Tail(s), v)

\* values.expanding().max()
RECURSIVE ExpandingMaxFrom(_, _)
ExpandingMaxFrom(s, acc) ==
    IF s = <<>> THEN <<>>
    ELSE LET v == IF IsNaN(acc) \/ Gt(Head(s), acc) THEN Head(s) ELSE acc
         IN  <<v>> \o ExpandingMaxFrom(Tail(s), v)

----------------------------------------------------------------------------
(* PerformanceMetricsCalculator (src/python/performance_metrics.py)        *)

TRADING_DAYS_YEAR == 252

RISK_FREE_RATE == Q(2, 100)

DECIMAL_PLACES == 6

RECURSIVE Pow10(_)
Pow10(k) == IF k = 0 THEN 1 ELSE 10 * Pow10(k - 1)

RECURSIVE FracDigits(_, _, _)
\* the first k decimal digits of r/d (0 <= r < d) and the remainder left
FracDigits(r, d, k) ==
    IF k = 0 THEN <<0, r>>
    ELSE LET rest == FracDigits((r * 10) % d, d, k - 1)
         IN  <<((r * 10) \div d) * Pow10(k - 1) + rest[1], rest[2]>>

\* round(value, places), ties to even; a value too large for the model's
\* integers is returned as it is (rounding moves it by less than 1e-9 of itself)
RoundHalfEven(x, places) ==
    LET a == Abs(x[1])
        d == x[2]
        q == a \div d
        f == FracDigits(a % d, d, places)
        u == q * Pow10(places) + f[1]
        v == IF 2 * f[2] > d THEN u + 1
             ELSE IF 2 * f[2] = d THEN u + (u % 2)
             ELSE u
    IN  IF q >= MaxInt \div Pow10(places) - 1 \/ d > MaxInt \div 10 THEN x
        ELSE Norm(Sign(x[1]) * v, Pow10(places))

round_to_decimal(value) ==
    IF IsNaN(value) \/ IsInf(value) THEN Zero
    ELSE RoundHalfEven(value, DECIMAL_PLACES)

get_empty_metrics ==
    [total_return |-> Zero, annualized_return |-> Zero, volatility |-> Zero,
     sharpe_ratio |-> Zero, max_drawdown |-> Zero, max_drawdown_duration |-> 0,
     sortino_ratio |-> Zero, calmar_ratio |-> Zero, var_95 |-> Zero,
     cvar_95 |-> Zero, win_rate |-> Zero, profit_factor |-> Zero]

calculate_total_return(returns) == Sub(ProdSkipNa(AddOne(returns)), One)

calculate_annualized_return(returns) ==
    IF Len(returns) = 0 THEN Zero
    ELSE Sub(Pow(Add(One, calculate_total_return(returns)),
                 TRADING_DAYS_YEAR, Len(returns)), One)

calculate_volatility(returns) ==
    IF Len(returns) <= 1 THEN Zero
    ELSE Mul(Std(returns), Sqrt(Q(TRADING_DAYS_YEAR, 1)))

calculate_sharpe_ratio(returns) ==
    IF Len(returns) <= 1 THEN Zero
    ELSE LET volatility == calculate_volatility(returns)
             excess_return ==
                 Sub(Mul(Mean(returns), Q(TRADING_DAYS_YEAR, 1)), RISK_FREE_RATE)
         IN  IF Eq(volatility, Zero) THEN Zero
             ELSE Div(excess_return, volatility)

calculate_sortino_ratio(returns) ==
    IF Len(returns) <= 1 THEN Zero
    ELSE LET downside_returns == SelectSeq(returns, IsNeg)
             downside_std == Std(downside_returns)
             excess_return ==
                 Sub(Mul(Mean(returns), Q(TRADING_DAYS_YEAR, 1)), RISK_FREE_RATE)
             downside_volatility == Mul(downside_std, Sqrt(Q(TRADING_DAYS_YEAR, 1)))
         IN  IF Len(downside_returns) = 0 THEN
                 (IF Gt(Mean(returns), Zero) THEN PosInf ELSE Zero)
             ELSE IF Eq(downside_std, Zero) THEN Zero
             ELSE Div(excess_return, downside_volatility)

calculate_calmar_ratio(annualized_return, max_drawdown) ==
    IF Eq(max_drawdown, Zero) THEN Zero
    ELSE Div(annualized_return, AbsQ(max_drawdown))

\* (values - peak) / peak with peak = values.expanding().max()
calculate_drawdown_from_values(values) ==
    LET peak == ExpandingMaxFrom(values, NaN)
    IN  List([i \in 1..Len(values) |-> Div(Sub(values[i], peak[i]), peak[i])])

calculate_max_drawdown(drawdown) ==
    IF Len(drawdown) = 0 THEN Zero ELSE MinSeq(dropna(drawdown))

\* the loop without the final append of a run that is still open
RECURSIVE DrawdownRunsClosed(_, _)
DrawdownRunsClosed(dd, current_period) ==
    IF dd = <<>> THEN 0
    ELSE IF IsNeg(Head(dd)) THEN DrawdownRunsClosed(Tail(dd), current_period + 1)
    ELSE Max2(current_period, DrawdownRunsClosed(Tail(dd), 0))

RECURSIVE DrawdownRuns(_, _)
\* the loop of _calculate_max_drawdown_duration: the longest run seen, given
\* the length of the run that is open
DrawdownRuns(dd, current_period) ==
    IF dd = <<>> THEN current_period
    ELSE IF IsNeg(Head(dd)) THEN DrawdownRuns(Tail(dd), current_period + 1)
    ELSE Max2(current_period, DrawdownRuns(Tail(dd), 0))

calculate_max_drawdown_duration(drawdown) ==
    IF Len(drawdown) = 0 THEN 0 ELSE DrawdownRuns(drawdown, 0)

calculate_var(returns, num, den) ==
    IF Len(returns) = 0 THEN Zero ELSE Quantile(returns, num, den)

calculate_cvar(returns, num, den) ==
    IF Len(returns) = 0 THEN Zero
    ELSE LET var == calculate_var(returns, num, den)
             InTail(x) == Le(x, var)
             tail_returns == SelectSeq(returns, InTail)
         IN  IF Len(tail_returns) > 0 THEN Mean(tail_returns) ELSE var

\* a win rate that counts a return of zero as a win
calculate_win_rate_nonnegative(returns) ==
    IF Len(returns) = 0 THEN Zero
    ELSE Q(Len(SelectSeq(returns, LAMBDA r : Ge(r, Zero))), Len(returns))

calculate_win_rate(returns) ==
    IF Len(returns) = 0 THEN Zero
    ELSE Q(Len(SelectSeq(returns, IsPos)), Len(returns))

calculate_profit_factor(returns) ==
    IF Len(returns) = 0 THEN Zero
    ELSE LET positive_returns == SelectSeq(returns, IsPos)
             negative_returns == SelectSeq(returns, IsNeg)
             total_gains == IF Len(positive_returns) > 0 THEN SumSeq(positive_returns) ELSE Zero
             total_losses == IF Len(negative_returns) > 0 THEN AbsQ(SumSeq(negative_returns)) ELSE One
         IN  IF Gt(total_losses, Zero) THEN Div(total_gains, total_losses) ELSE Zero

\* calculate_metrics(returns) with drawdown = None
calculate_metrics(returns) ==
    LET returns_clean == dropna(returns)
        drawdown == calculate_drawdown_from_values(CumProdFrom(returns_clean, One))
        annualized_return == calculate_annualized_return(returns_clean)
        max_drawdown == calculate_max_drawdown(drawdown)
    IN  IF Len(returns_clean) = 0 THEN get_empty_metrics
        ELSE [total_return |-> round_to_decimal(calculate_total_return(returns_clean)),
              annualized_return |-> round_to_decimal(annualized_return),
              volatility |-> round_to_decimal(calculate_volatility(returns_clean)),
              sharpe_ratio |-> round_to_decimal(calculate_sharpe_ratio(returns_clean)),
              max_drawdown |-> round_to_decimal(max_drawdown),
              max_drawdown_duration |-> calculate_max_drawdown_duration(drawdown),
              sortino_ratio |-> round_to_decimal(calculate_sortino_ratio(returns_clean)),
              calmar_ratio |-> round_to_decimal(calculate_calmar_ratio(annualized_return, max_drawdown)),
              var_95 |-> round_to_decimal(calculate_var(returns_clean, 5, 100)),
              cvar_95 |-> round_to_decimal(calculate_cvar(returns_clean, 5, 100)),
              win_rate |-> round_to_decimal(calculate_win_rate(returns_clean)),
              profit_factor |-> round_to_decimal(calculate_profit_factor(returns_clean))]

----------------------------------------------------------------------------
(* BacktestEngine metrics (src/python/backtest_engine.py)                  *)

BacktestEngine_calculate_sortino_ratio(returns, annual_factor) ==
    LET downside_returns == SelectSeq(returns, IsNeg)
        downside_std == Std(downside_returns)
        excess_return == Sub(Mul(Mean(returns), Q(annual_factor, 1)), Q(2, 100))
    IN  IF Len(downside_returns) = 0 THEN Zero
        ELSE IF Eq(downside_std, Zero) THEN Zero
        ELSE Div(excess_return, Mul(downside_std, Sqrt(Q(annual_factor, 1))))

BacktestEngine_calculate_max_drawdown_duration(drawdown) == DrawdownRuns(drawdown, 0)

\* lines 590-630: the ratios and the dict returned
BacktestEngine_metrics_dict(returns_clean, drawdown_clean, total_return, annualized_return, volatility, max_drawdown, var_95) ==
    LET annual_factor == 252
        n == Len(returns_clean)
        risk_free_rate == Q(2, 100)
        excess_return == Sub(annualized_return, risk_free_rate)
        InTail(x) == Le(x, var_95)
        tail == SelectSeq(returns_clean, InTail)
        positive_returns == SelectSeq(returns_clean, IsPos)
        negative_returns == SelectSeq(returns_clean, IsNeg)
        total_gains == IF Len(positive_returns) > 0 THEN SumSeq(positive_returns) ELSE Zero
        total_losses == IF Len(negative_returns) > 0 THEN AbsQ(SumSeq(negative_returns)) ELSE One
    IN  [total_return |-> total_return,
         annualized_return |-> annualized_return,
         volatility |-> volatility,
         sharpe_ratio |-> IF Gt(volatility, Zero) THEN Div(excess_return, volatility) ELSE Zero,
         max_drawdown |-> max_drawdown,
         max_drawdown_duration |-> BacktestEngine_calculate_max_drawdown_duration(drawdown_clean),
         sortino_ratio |-> BacktestEngine_calculate_sortino_ratio(returns_clean, annual_factor),
         calmar_ratio |-> IF ~Eq(max_drawdown, Zero)
                          THEN Div(annualized_return, AbsQ(max_drawdown)) ELSE Zero,
         var_95 |-> var_95,
         cvar_95 |-> IF Len(tail) > 0 THEN Mean(tail) ELSE var_95,
         win_rate |-> IF n > 0 THEN Q(Len(positive_returns), n) ELSE Zero,
         profit_factor |-> IF Gt(total_losses, Zero) THEN Div(total_gains, total_losses) ELSE Zero]

\* lines 587-604: the values computed from the cleaned series
BacktestEngine_metrics_from_total(returns_clean, drawdown_clean, total_return) ==
    BacktestEngine_metrics_dict(
        returns_clean, drawdown_clean, total_return,
        Sub(Pow(Add(One, total_return), 252, Len(returns_clean)), One),
        Mul(Std(returns_clean), Sqrt(Q(252, 1))),
        MinSeq(drawdown_clean),
        Quantile(returns_clean, 5, 100))

\* lines 579-586 on the series without their missing values
BacktestEngine_metrics_clean(returns_clean, drawdown_clean) ==
    IF Len(returns_clean) = 0 THEN get_empty_metrics
    ELSE BacktestEngine_metrics_from_total(
             returns_clean, drawdown_clean, Sub(ProdSkipNa(AddOne(returns_clean)), One))

BacktestEngine_calculate_metrics(returns, drawdown) ==
    IF Len(returns) = 0 \/ Eq(Std(returns), Zero) THEN get_empty_metrics
    ELSE BacktestEngine_metrics_clean(dropna(returns), dropna(drawdown))

----------------------------------------------------------------------------
(* Calendar: a date is the number of days since Monday 2024-01-01          *)

IsLeap(y) == (y % 4 = 0 /\ y % 100 # 0) \/ y % 400 = 0

DaysInYear(y) == IF IsLeap(y) THEN 366 ELSE 365

DaysInMonth(y, m) ==
    IF m = 2 THEN (IF IsLeap(y) THEN 29 ELSE 28)
    ELSE IF m \in {4, 6, 9, 11} THEN 30 ELSE 31

RECURSIVE YearFrom(_, _)
YearFrom(y, d) == IF d < DaysInYear(y) THEN <<y, d>> ELSE YearFrom(y + 1, d - DaysInYear(y))

RECURSIVE MonthFrom(_, _, _)
MonthFrom(y, m, d) ==
    IF d < DaysInMonth(y, m) THEN <<m, d + 1>> ELSE MonthFrom(y, m + 1, d - DaysInMonth(y, m))

\* date.year, date.month
YearOf(date) == YearFrom(2024, date)[1]

MonthOf(date) == MonthFrom(YearOf(date), 1, YearFrom(2024, date)[2])[1]

RECURSIVE DaysBeforeYear(_)
DaysBeforeYear(y) == IF y <= 2024 THEN 0 ELSE DaysInYear(y - 1) + DaysBeforeYear(y - 1)

RECURSIVE DaysBeforeMonth(_, _)
DaysBeforeMonth(y, m) == IF m <= 1 THEN 0 ELSE DaysInMonth(y, m - 1) + DaysBeforeMonth(y, m - 1)

\* the date with the given year, month and day
DateOf(y, m, d) == DaysBeforeYear(y) + DaysBeforeMonth(y, m) + d - 1

\* date.weekday(): Monday is 0
weekday(date) == date % 7

----------------------------------------------------------------------------
(* MomentumStrategy._get_rebalance_dates                                   *)

SeqToSet(s) == {s[i] : i \in 1..Len(s)}

\* the period of a date that the loop compares with current_month /
\* current_quarter / current_year
PeriodKey(frequency, date) ==
    IF frequency = "monthly" THEN MonthOf(date)
    ELSE IF frequency = "quarterly" THEN (MonthOf(date) - 1) \div 3
    ELSE YearOf(date)

\* month_start / quarter_start / year_start: date.replace(...)
PeriodStart(frequency, date) ==
    IF frequency = "monthly" THEN DateOf(YearOf(date), MonthOf(date), 1)
    ELSE IF frequency = "quarterly"
        THEN DateOf(YearOf(date), ((MonthOf(date) - 1) \div 3) * 3 + 1, 1)
    ELSE DateOf(YearOf(date), 1, 1)

\* first_monday = start + timedelta(days_ahead)
FirstMonday(start) ==
    LET days_ahead == 0 - weekday(start)
    IN  start + (IF days_ahead <= 0 THEN days_ahead + 7 ELSE days_ahead)

\* dates[dates >= first_monday][:5]
FirstFiveFrom(dates, first_monday) ==
    LET OnOrAfter(d) == d >= first_monday
        later == SelectSeq(dates, OnOrAfter)
    IN  SubSeq(later, 1, Min2(5, Len(later)))

MinOfSet(S) == CHOOSE x \in S : \A y \in S : x <= y

\* the dates at which the loop sees a new period: the first date, and every
\* date whose period differs from that of the date before it
PeriodOpeners(dates, frequency) ==
    {k \in 1..Len(dates) :
        k = 1 \/ PeriodKey(frequency, dates[k]) # PeriodKey(frequency, dates[k - 1])}

\* [exc |-> the exception raised or "none", dates |-> the set returned]
get_rebalance_dates(dates, frequency) ==
    IF frequency = "daily" THEN [exc |-> "none", dates |-> SeqToSet(dates)]
    ELSE IF frequency = "weekly" THEN
        [exc |-> "none", dates |-> {d \in SeqToSet(dates) : weekday(d) = 0}]
    ELSE IF frequency \in {"monthly", "quarterly", "annually"} THEN
        LET Window(k) == FirstFiveFrom(dates, FirstMonday(PeriodStart(frequency, dates[k])))
            openers == PeriodOpeners(dates, frequency)
        IN  IF \E k \in openers : Len(Window(k)) = 0
            THEN [exc |-> "ValueError", dates |-> {}]
            ELSE [exc |-> "none", dates |-> {MinOfSet(SeqToSet(Window(k))) : k \in openers}]
    ELSE [exc |-> "none", dates |-> {}]

----------------------------------------------------------------------------
(* Strategies (src/python/backtest_engine.py)                              *)
(* A price panel is [dates, columns, prices]: prices[t][j] is the price of *)
(* columns[j] on dates[t].  Row indices i are those of the code (from 0).  *)
(* A dict is a function from its keys.                                     *)

\* dict.get(key, default)
Get(dict, key, default) == IF key \in DOMAIN dict THEN dict[key] ELSE default

EmptyDict == [k \in {} |-> 0]

\* the truth value of a dict
Truthy(dict) == DOMAIN dict # {}

Column(matrix, j) == List([t \in 1..Len(matrix) |-> matrix[t][j]])

\* seq[a:b] for 0 <= a
Slice(s, a, b) == SubSeq(s, a + 1, Min2(b, Len(s)))

\* seq[:k]: a negative k counts from the end
Take(s, k) == IF k >= 0 THEN SubSeq(s, 1, Min2(k, Len(s))) ELSE SubSeq(s, 1, Max2(0, Len(s) + k))

\* prices.pct_change().fillna(0)
pct_change_fillna(prices) ==
    List([t \in 1..Len(prices) |->
             List([j \in 1..Len(prices[t]) |->
                      IF t = 1 THEN Zero
                      ELSE LET r == Sub(Div(prices[t][j], prices[t - 1][j]), One)
                           IN  IF IsNaN(r) THEN Zero ELSE r])])

ConstRow(n, v) == List([j \in 1..n |-> v])

\* the last index k <= i at which the loop recomputes the row: every other
\* row after the warm-up is copied from the row before it
LastRecompute(i, warmup, dates, rebalance_dates) ==
    CHOOSE k \in warmup..i :
        /\ (dates[k + 1] \in rebalance_dates \/ k = warmup)
        /\ \A m \in (k + 1)..i : ~(dates[m + 1] \in rebalance_dates \/ m = warmup)

Recomputes(warmup, dates, rebalance_dates) ==
    {k \in warmup..(Len(dates) - 1) : dates[k + 1] \in rebalance_dates \/ k = warmup}

Raised(e) == [exc |-> e, weights |-> <<>>]

\* buy and hold that ignores the target allocations: equal weights throughout
BuyHold_equal_weights(parameters, panel, rebalancing_frequency) ==
    LET n == Len(panel.columns)
    IN  IF n = 0 THEN Raised("ZeroDivisionError")
        ELSE [exc |-> "none",
              weights |-> List([t \in 1..Len(panel.dates) |-> ConstRow(n, Q(1, n))])]

BuyHold_calculate_weights(parameters, panel, rebalancing_frequency) ==
    LET target_allocations == Get(parameters, "target_allocations", EmptyDict)
        n == Len(panel.columns)
    IN  IF Truthy(target_allocations) THEN
            [exc |-> "none",
             weights |-> List([t \in 1..Len(panel.dates) |->
                                 List([j \in 1..n |-> Get(target_allocations, panel.columns[j], Zero)])])]
        ELSE IF n = 0 THEN Raised("ZeroDivisionError")
        ELSE [exc |-> "none",
              weights |-> List([t \in 1..Len(panel.dates) |-> ConstRow(n, Q(1, n))])]

\* a stable sort of <<column, score>> pairs by score, descending
RECURSIVE InsertByScore(_, _)
InsertByScore(x, s) ==
    IF s = <<>> THEN <<x>>
    ELSE IF Lt(x[2], Head(s)[2]) THEN <<Head(s)>> \o InsertByScore(x, Tail(s))
    ELSE <<x>> \o s

RECURSIVE SortByScoreDesc(_)
SortByScoreDesc(s) ==
    IF s = <<>> THEN <<>> ELSE InsertByScore(Head(s), SortByScoreDesc(Tail(s)))

\* the columns named by a list of <<column, score>> pairs
Picked(pairs) == {pairs[k][1] : k \in 1..Len(pairs)}

\* the first row, in loop order, at which the loop raises, or "none"
FirstRaise(rows, ExcAt(_)) ==
    LET bad == {k \in rows : ExcAt(k) # "none"}
    IN  IF bad = {} THEN "none" ELSE ExcAt(MinOfSet(bad))

Momentum_validate_parameters(parameters) ==
    IF Get(parameters, "lookback_period", 60) <= 0 THEN "ValueError" ELSE "none"

\* the loop over the dates, given the rebalance dates
Momentum_loop(parameters, panel, returns, rebalance) ==
    LET lookback_period == Get(parameters, "lookback_period", 60)
        \* parameters.get('top_n', None): None when the key is absent
        top_n_is_none == "top_n" \notin DOMAIN parameters
        top_n == Get(parameters, "top_n", 0)
        positive_returns_only == Get(parameters, "positive_returns_only", FALSE)
        given == Get(parameters, "target_allocations", EmptyDict)
        columns == panel.columns
        dates == panel.dates
        n == Len(columns)
        \* equal_weight is assigned only when no target allocation is given
        equal_weight_bound == ~Truthy(given)
        equal_weight == Q(1, n)
        target_allocations ==
            IF Truthy(given) THEN given ELSE [c \in SeqToSet(columns) |-> equal_weight]
        asset_return(i, j) ==
            Sub(ProdSkipNa(AddOne(Slice(Column(returns, j), i - lookback_period, i))), One)
        asset_returns(i) == List([j \in 1..n |-> asset_return(i, j)])
        Kept(rets) == SelectSeq(List([j \in 1..n |-> j]),
                                LAMBDA j : ~(positive_returns_only /\ Le(rets[j], Zero)))
        Scored(rets, kept) ==
            SortByScoreDesc(List([k \in 1..Len(kept) |-> <<kept[k], rets[kept[k]]>>]))
        momentum_scores(rets) == Scored(rets, Kept(rets))
        Top(scores) ==
            IF ~top_n_is_none THEN Take(scores, Min2(top_n, Len(scores))) ELSE scores
        selected_assets(i) == Top(momentum_scores(asset_returns(i)))
        original_weight(j) == Get(target_allocations, columns[j], equal_weight)
        total_selected_allocation(selected) ==
            SumSeq(List([k \in 1..Len(selected) |-> original_weight(selected[k][1])]))
        ExcFor(selected) ==
            IF selected = <<>> THEN "none"
            ELSE IF ~equal_weight_bound THEN "NameError"
            ELSE IF Eq(total_selected_allocation(selected), Zero) THEN "ZeroDivisionError"
            ELSE "none"
        ExcAt(i) == ExcFor(selected_assets(i))
        Normalised(selected, total) ==
            List([j \in 1..n |->
                     IF j \in Picked(selected) THEN Div(original_weight(j), total) ELSE Zero])
        RowFor(selected) == Normalised(selected, total_selected_allocation(selected))
        Recomputed(i) == RowFor(selected_assets(i))
        Row(i) ==
            IF i < lookback_period
            THEN List([j \in 1..n |-> Get(target_allocations, columns[j], Zero)])
            ELSE Recomputed(LastRecompute(i, lookback_period, dates, rebalance.dates))
        Outcome(exc) ==
            IF exc # "none" THEN Raised(exc)
            ELSE [exc |-> "none", weights |-> List([t \in 1..Len(dates) |-> Row(t - 1)])]
    IN  IF ~Truthy(given) /\ n = 0 THEN Raised("ZeroDivisionError")
        ELSE IF rebalance.exc # "none" THEN Raised(rebalance.exc)
        ELSE Outcome(FirstRaise(Recomputes(lookback_period, dates, rebalance.dates), ExcAt))

Momentum_calculate_weights(parameters, panel, returns, rebalancing_frequency) ==
    Momentum_loop(parameters, panel, returns,
                  get_rebalance_dates(panel.dates, rebalancing_frequency))

\* the loop over the dates, given the rebalance dates
RelativeStrength_loop(parameters, panel, returns, rebalance) ==
    LET lookback_period == Get(parameters, "lookback_period", 126)
        top_n == Get(parameters, "top_n", 2)
        positive_returns_only == Get(parameters, "positive_returns_only", FALSE)
        columns == panel.columns
        dates == panel.dates
        n == Len(columns)
        symbol_ret(i, j) == SumSkipNa(Slice(Column(returns, j), i - lookback_period, i))
        symbol_rets(i) == List([j \in 1..n |-> symbol_ret(i, j)])
        avg_return(rets) == Div(SumSeq(rets), Q(n, 1))
        Kept(rets) == SelectSeq(List([j \in 1..n |-> j]),
                                LAMBDA j : ~(positive_returns_only /\ Le(rets[j], Zero)))
        Scored(rets, kept, avg) ==
            SortByScoreDesc(List([k \in 1..Len(kept) |-> <<kept[k], Sub(rets[kept[k]], avg)>>]))
        rel_strength_scores(rets) == Scored(rets, Kept(rets), avg_return(rets))
        Top(scores) == Take(scores, Min2(top_n, Len(scores)))
        RowFor(top_assets) ==
            List([j \in 1..n |->
                     IF j \in Picked(top_assets) THEN Q(1, Len(top_assets)) ELSE Zero])
        Recomputed(i) == RowFor(Top(rel_strength_scores(symbol_rets(i))))
        Row(i) ==
            IF i < lookback_period THEN ConstRow(n, Q(1, n))
            ELSE Recomputed(LastRecompute(i, lookback_period, dates, rebalance.dates))
    IN  \* MomentumStrategy(self.parameters) validates lookback_period
        IF Momentum_validate_parameters(parameters) # "none" THEN Raised("ValueError")
        ELSE IF rebalance.exc # "none" THEN Raised(rebalance.exc)
        ELSE IF n = 0 /\ Len(dates) > 0 THEN Raised("ZeroDivisionError")
        ELSE [exc |-> "none", weights |-> List([t \in 1..Len(dates) |-> Row(t - 1)])]

RelativeStrength_calculate_weights(parameters, panel, returns, rebalancing_frequency) ==
    RelativeStrength_loop(parameters, panel, returns,
                          get_rebalance_dates(panel.dates, rebalancing_frequency))

\* prices.rolling(window).mean() at row i: NaN until the window is full
\* a rolling mean whose window ends on the row after row i
RollingMeanAhead(column, window, i) ==
    IF i + 1 < window THEN NaN
    ELSE Div(SumSeq(Slice(column, i + 2 - window, i + 2)), Q(window, 1))

RollingMean(column, window, i) ==
    IF i + 1 < window THEN NaN
    ELSE Div(SumSeq(Slice(column, i + 1 - window, i + 1)), Q(window, 1))

\* the loop over the dates, given the rebalance dates
MeanReversion_loop(parameters, panel, returns, rebalance) ==
    LET ma_period == Get(parameters, "ma_period", 50)
        deviation_threshold == Get(parameters, "deviation_threshold", Q(1, 10))
        columns == panel.columns
        dates == panel.dates
        prices == panel.prices
        n == Len(columns)
        DeviationFrom(price, mas) == Div(Sub(price, mas), mas)
        deviation(i, j) ==
            DeviationFrom(prices[i + 1][j], RollingMean(Column(prices, j), ma_period, i))
        deviations(i) == List([j \in 1..n |-> deviation(i, j)])
        undervalued(devs) == {j \in 1..n : Lt(devs[j], Neg(deviation_threshold))}
        total_negative_deviation(devs, under) ==
            SumSkipNa(List([j \in 1..n |-> IF j \in under THEN AbsQ(devs[j]) ELSE Zero]))
        Normalised(devs, under, total) ==
            List([j \in 1..n |-> IF j \in under THEN Div(AbsQ(devs[j]), total) ELSE Zero])
        RowFor(devs, under) ==
            IF under # {}
            THEN Normalised(devs, under, total_negative_deviation(devs, under))
            ELSE ConstRow(n, Q(1, n))
        RowFrom(devs) == RowFor(devs, undervalued(devs))
        Recomputed(i) == RowFrom(deviations(i))
        Row(i) ==
            IF i < ma_period THEN ConstRow(n, Q(1, n))
            ELSE Recomputed(LastRecompute(i, ma_period, dates, rebalance.dates))
    IN  IF Momentum_validate_parameters(parameters) # "none" THEN Raised("ValueError")
        ELSE IF rebalance.exc # "none" THEN Raised(rebalance.exc)
        ELSE IF n = 0 /\ Len(dates) > 0 THEN Raised("ZeroDivisionError")
        ELSE [exc |-> "none", weights |-> List([t \in 1..Len(dates) |-> Row(t - 1)])]

MeanReversion_calculate_weights(parameters, panel, returns, rebalancing_frequency) ==
    MeanReversion_loop(parameters, panel, returns,
                       get_rebalance_dates(panel.dates, rebalancing_frequency))

\* the loop over the dates, given the rebalance dates
\* the loop without volatilities.replace(0, np.inf)
RiskParity_loop_unguarded(parameters, panel, returns, rebalance) ==
    LET volatility_window == Get(parameters, "volatility_window", 60)
        n == Len(panel.columns)
        volatility(i, j) == Std(Slice(Column(returns, j), i - volatility_window, i))
        inverse_vol(i) == List([j \in 1..n |-> Div(One, volatility(i, j))])
        Normalised(inv, total) == List([j \in 1..n |-> Div(inv[j], total)])
        RowFrom(inv) == Normalised(inv, SumSkipNa(inv))
        Row(i) ==
            IF i < volatility_window THEN ConstRow(n, Q(1, n))
            ELSE RowFrom(inverse_vol(LastRecompute(i, volatility_window, panel.dates, rebalance.dates)))
    IN  IF rebalance.exc # "none" THEN Raised(rebalance.exc)
        ELSE [exc |-> "none", weights |-> List([t \in 1..Len(panel.dates) |-> Row(t - 1)])]

RiskParity_loop(parameters, panel, returns, rebalance) ==
    LET volatility_window == Get(parameters, "volatility_window", 60)
        columns == panel.columns
        dates == panel.dates
        n == Len(columns)
        volatility(i, j) == Std(Slice(Column(returns, j), i - volatility_window, i))
        \* 1.0 / volatilities.replace(0, np.inf)
        Inverse(vol) == Div(One, IF Eq(vol, Zero) THEN PosInf ELSE vol)
        inverse_vol(i) == List([j \in 1..n |-> Inverse(volatility(i, j))])
        Normalised(inv, total) == List([j \in 1..n |-> Div(inv[j], total)])
        RowFrom(inv) == Normalised(inv, SumSkipNa(inv))
        Recomputed(i) == RowFrom(inverse_vol(i))
        Row(i) ==
            IF i < volatility_window THEN ConstRow(n, Q(1, n))
            ELSE Recomputed(LastRecompute(i, volatility_window, dates, rebalance.dates))
    IN  IF Momentum_validate_parameters(parameters) # "none" THEN Raised("ValueError")
        ELSE IF rebalance.exc # "none" THEN Raised(rebalance.exc)
        ELSE IF n = 0 /\ Len(dates) > 0 THEN Raised("ZeroDivisionError")
        ELSE [exc |-> "none", weights |-> List([t \in 1..Len(dates) |-> Row(t - 1)])]

RiskParity_calculate_weights(parameters, panel, returns, rebalancing_frequency) ==
    RiskParity_loop(parameters, panel, returns,
                    get_rebalance_dates(panel.dates, rebalancing_frequency))

TacticalAllocation_calculate_weights(parameters, panel, returns, rebalancing_frequency) ==
    LET risk_on_allocation == Get(parameters, "risk_on_allocation", Q(8, 10))
        risk_off_allocation == Get(parameters, "risk_off_allocation", Q(2, 10))
        ma_period == Get(parameters, "ma_period", 200)
        columns == panel.columns
        dates == panel.dates
        prices == panel.prices
        n == Len(columns)
        n_growth == n \div 2
        n_defensive == n - n_growth
        ma_200(i) == RollingMean(Column(prices, 1), ma_period, i)
        is_risk_on(i) == Gt(prices[i + 1][1], ma_200(i))
        growth_weight(i) ==
            IF n_growth > 0
            THEN Div(IF is_risk_on(i) THEN risk_on_allocation ELSE risk_off_allocation, Q(n_growth, 1))
            ELSE Zero
        defensive_weight(i) ==
            IF n_defensive > 0
            THEN Div(IF is_risk_on(i) THEN risk_off_allocation ELSE risk_on_allocation, Q(n_defensive, 1))
            ELSE Zero
        Row(i) ==
            IF i < ma_period THEN ConstRow(n, Q(1, n))
            ELSE List([j \in 1..n |-> IF j - 1 < n_growth THEN growth_weight(i) ELSE defensive_weight(i)])
    IN  IF n = 0 THEN [exc |-> "none", weights |-> List([t \in 1..Len(dates) |-> <<>>])]
        ELSE [exc |-> "none", weights |-> List([t \in 1..Len(dates) |-> Row(t - 1)])]

Rotation_calculate_weights(parameters, panel, returns, rebalancing_frequency) ==
    LET number_of_sectors == Get(parameters, "number_of_sectors", 3)
        momentum_params == [k \in {"lookback_period", "top_n"} |->
                                IF k = "lookback_period" THEN 90 ELSE number_of_sectors]
    IN  Momentum_calculate_weights(momentum_params, panel, returns, rebalancing_frequency)

StrategyTypes ==
    {"buy_hold", "momentum", "relative_strength", "mean_reversion",
     "risk_parity", "tactical_allocation", "rotation"}

\* StrategyBase.__init__: validate_parameters of the subclass
Strategy_init(strategy_type, parameters) ==
    IF strategy_type = "momentum" THEN Momentum_validate_parameters(parameters) ELSE "none"

\* strategy.calculate_weights(prices, returns, dates, rebalancing_frequency)
calculate_weights(strategy_type, parameters, panel, returns, rebalancing_frequency) ==
    CASE strategy_type = "buy_hold" ->
            BuyHold_calculate_weights(parameters, panel, rebalancing_frequency)
      [] strategy_type = "momentum" ->
            Momentum_calculate_weights(parameters, panel, returns, rebalancing_frequency)
      [] strategy_type = "relative_strength" ->
            RelativeStrength_calculate_weights(parameters, panel, returns, rebalancing_frequency)
      [] strategy_type = "mean_reversion" ->
            MeanReversion_calculate_weights(parameters, panel, returns, rebalancing_frequency)
      [] strategy_type = "risk_parity" ->
            RiskParity_calculate_weights(parameters, panel, returns, rebalancing_frequency)
      [] strategy_type = "tactical_allocation" ->
            TacticalAllocation_calculate_weights(parameters, panel, returns, rebalancing_frequency)
      [] strategy_type = "rotation" ->
            Rotation_calculate_weights(parameters, panel, returns, rebalancing_frequency)

----------------------------------------------------------------------------
(* BacktestEngine.run_backtest                                             *)

\* weights.shift(1).fillna(0)
\* weights.fillna(0) without the shift: each row is used on its own date
unshifted_weights(weights) ==
    List([t \in 1..Len(weights) |->
             List([j \in 1..Len(weights[t]) |->
                      IF IsNaN(weights[t][j]) THEN Zero ELSE weights[t][j]])])

lagged_weights(weights) ==
    List([t \in 1..Len(weights) |->
             List([j \in 1..Len(weights[t]) |->
                      IF t = 1 THEN Zero
                      ELSE IF IsNaN(weights[t - 1][j]) THEN Zero ELSE weights[t - 1][j]])])

\* (lagged_weights * returns).sum(axis=1)
calculate_portfolio_returns(weights, returns) ==
    LET lagged == lagged_weights(weights)
    IN  List([t \in 1..Len(weights) |->
                 SumSkipNa(List([j \in 1..Len(weights[t]) |-> Mul(lagged[t][j], returns[t][j])]))])

\* (1 + returns).cumprod() * initial_capital with the capital invested one
\* date early: the first value already carries the second date's return
early_portfolio_values(returns, initial_capital) ==
    LET growth == CumProdFrom(returns, One)
    IN  List([t \in 1..Len(returns) |->
                 Mul(growth[Min2(t + 1, Len(returns))], initial_capital)])

\* (1 + returns).cumprod() * initial_capital
calculate_portfolio_values(returns, initial_capital) ==
    LET growth == CumProdFrom(returns, One)
    IN  List([t \in 1..Len(returns) |-> Mul(growth[t], initial_capital)])

calculate_drawdown(portfolio_values) == calculate_drawdown_from_values(portfolio_values)

IndexOf(s, x) == CHOOSE k \in 1..Len(s) : s[k] = x

HasNaN(row) == \E j \in 1..Len(row) : IsNaN(row[j])

\* price_data[symbols].dropna(): the columns of the holdings, in their order,
\* without the rows that miss a price
select_prices(price_data, symbols) ==
    LET picked == List([t \in 1..Len(price_data.dates) |->
                           List([j \in 1..Len(symbols) |->
                                    price_data.prices[t][IndexOf(price_data.columns, symbols[j])]])])
        keep == SelectSeq(List([t \in 1..Len(picked) |-> t]), LAMBDA t : ~HasNaN(picked[t]))
    IN  [dates |-> List([k \in 1..Len(keep) |-> price_data.dates[keep[k]]]),
         columns |-> symbols,
         prices |-> List([k \in 1..Len(keep) |-> picked[keep[k]]])]

\* {h['symbol']: h['allocation'] for h in holdings}: a later holding of the
\* same symbol replaces an earlier one
holdings_dict(holdings) ==
    [sym \in {holdings[k].symbol : k \in 1..Len(holdings)} |->
        LET last == CHOOSE k \in 1..Len(holdings) :
                        /\ holdings[k].symbol = sym
                        /\ \A m \in (k + 1)..Len(holdings) : holdings[m].symbol # sym
        IN  holdings[last].allocation]

\* a dict[key] = value that drops the key when it is already there
PutToggle(dict, key, value) ==
    IF key \in DOMAIN dict THEN [k \in DOMAIN dict \ {key} |-> dict[k]]
    ELSE [k \in DOMAIN dict \cup {key} |-> IF k = key THEN value ELSE dict[k]]

\* dict[key] = value
Put(dict, key, value) ==
    [k \in DOMAIN dict \cup {key} |-> IF k = key THEN value ELSE dict[k]]

Failure(op, e, cfg) == [op |-> op, exc |-> e, config |-> cfg]

\* lines 539-547: the metrics and the BacktestResults
BacktestResults(cfg, dates, weights, portfolio_returns, portfolio_values, drawdown) ==
    [op |-> "run_backtest", exc |-> "none", config |-> cfg,
     portfolio_values |-> portfolio_values,
     returns |-> portfolio_returns,
     dates |-> dates,
     weights |-> weights,
     metrics |-> BacktestEngine_calculate_metrics(portfolio_returns, drawdown),
     drawdown |-> drawdown]

\* line 536 on: the drawdown of the portfolio values
backtest_from_values(cfg, dates, weights, portfolio_returns, portfolio_values) ==
    BacktestResults(cfg, dates, weights, portfolio_returns, portfolio_values,
                    calculate_drawdown(portfolio_values))

\* line 533 on: the portfolio values of the portfolio returns
backtest_from_returns(cfg, dates, weights, portfolio_returns) ==
    backtest_from_values(cfg, dates, weights, portfolio_returns,
                         calculate_portfolio_values(portfolio_returns, cfg.initial_capital))

\* line 532 on, for the outcome w of strategy.calculate_weights
backtest_from_weights(cfg, dates, returns, w) ==
    IF w.exc # "none" THEN Failure("run_backtest", w.exc, cfg)
    ELSE backtest_from_returns(cfg, dates, w.weights,
                               calculate_portfolio_returns(w.weights, returns))

\* lines 510-529 on the price panel of the holdings: the strategy is built
\* from its parameters and computes the weights
backtest_strategy(cfg, strategy_type, strategy_params, prices, returns) ==
    IF strategy_type \notin StrategyTypes THEN Failure("run_backtest", "ValueError", cfg)
    ELSE IF Strategy_init(strategy_type, strategy_params) # "none"
        THEN Failure("run_backtest", Strategy_init(strategy_type, strategy_params), cfg)
    ELSE backtest_from_weights(cfg, prices.dates, returns,
                               calculate_weights(strategy_type, strategy_params, prices,
                                                 returns, cfg.rebalancing_frequency))

\* The outcome of run_backtest(config, price_data): the exception raised or
\* the BacktestResults, and the config object as the call leaves it.
\* price_data = None is a record without prices.
run_backtest(cfg, data) ==
    LET holdings == Get(cfg.portfolio, "holdings", <<>>)
        symbols == List([k \in 1..Len(holdings) |-> holdings[k].symbol])
        target_allocations == holdings_dict(holdings)
        prices == select_prices(data, symbols)
        strategy_type == Get(cfg.strategy, "type", "buy_hold")
        has_params == "parameters" \in DOMAIN cfg.strategy
        strategy_params0 == Get(cfg.strategy, "parameters", EmptyDict)
        \* strategy_params['target_allocations'] = target_allocations writes
        \* into the dict held by config.strategy
        strategy_params ==
            IF strategy_type \in {"buy_hold", "momentum"}
            THEN Put(strategy_params0, "target_allocations", target_allocations)
            ELSE strategy_params0
        cfg1 == IF has_params
                THEN [cfg EXCEPT !.strategy = Put(cfg.strategy, "parameters", strategy_params)]
                ELSE cfg
    IN  IF Len(symbols) = 0 THEN Failure("run_backtest", "ValueError", cfg)
        ELSE IF "prices" \notin DOMAIN data THEN Failure("run_backtest", "ValueError", cfg)
        ELSE IF \E k \in 1..Len(symbols) : symbols[k] \notin SeqToSet(data.columns)
            THEN Failure("run_backtest", "KeyError", cfg)
        ELSE IF Len(prices.dates) = 0 THEN Failure("run_backtest", "ValueError", cfg)
        ELSE backtest_strategy(cfg1, strategy_type, strategy_params, prices,
                               pct_change_fillna(prices.prices))

----------------------------------------------------------------------------
(* State: the arguments a caller holds and the outcome of the last call    *)

VARIABLES config, price_data, series, result

vars == <<config, price_data, series, result>>

NoCall == [op |-> "none"]

NoSeries == [portfolio_returns |-> <<>>, benchmark_returns |-> <<>>]

NoConfig == [portfolio |-> [holdings |-> <<>>],
             strategy |-> [type |-> "buy_hold"],
             initial_capital |-> Zero,
             rebalancing_frequency |-> "daily"]

NoPriceData == [dates |-> <<>>, columns |-> <<>>]

----------------------------------------------------------------------------
(* Inputs of the engine                                                    *)

MaxSymbols == 2

MaxDates == 3

MaxLookback == 2

SymbolNames == <<"AAA", "BBB", "CCC", "DDD">>

PriceSet == {Q(1, 1), Q(2, 1)}

\* the first n business days from start on
RECURSIVE BusinessDays(_, _)
BusinessDays(start, n) ==
    IF n = 0 THEN <<>>
    ELSE IF weekday(start) >= 5 THEN BusinessDays(start + 1, n)
    ELSE <<start>> \o BusinessDays(start + 1, n - 1)

\* rectangular panels of n symbols on the t business days from start on
Panels(n, t, start) ==
    {[dates |-> BusinessDays(start, t),
      columns |-> SubSeq(SymbolNames, 1, n),
      prices |-> p] : p \in [1..t -> [1..n -> PriceSet]]}

\* holdings whose allocations sum to 1 within the validator's 1% tolerance
AllocationSets(n) ==
    IF n = 1 THEN {<<One>>}
    ELSE IF n = 2 THEN {<<Q(3, 5), Q(2, 5)>>, <<Q(1, 2), Q(99, 200)>>}
    ELSE {List([j \in 1..n |-> IF j = 1 THEN Q(n + 1, 2 * n) ELSE Q(1, 2 * n)])}

Holdings(n, alloc) == List([j \in 1..n |-> [symbol |-> SymbolNames[j], allocation |-> alloc[j]]])

Dict1(k1, v1) == [k \in {k1} |-> v1]

Dict2(k1, v1, k2, v2) == [k \in {k1, k2} |-> IF k = k1 THEN v1 ELSE v2]

Dict3(k1, v1, k2, v2, k3, v3) ==
    [k \in {k1, k2, k3} |-> IF k = k1 THEN v1 ELSE IF k = k2 THEN v2 ELSE v3]

\* strategy descriptors {type, parameters}
Strategies ==
    {[type |-> "buy_hold", parameters |-> EmptyDict]}
    \cup {[type |-> "momentum",
           parameters |-> Dict2("lookback_period", l, "positive_returns_only", b)] :
            l \in 1..MaxLookback, b \in BOOLEAN}
    \cup {[type |-> "momentum",
           parameters |-> Dict3("lookback_period", l, "positive_returns_only", b, "top_n", 1)] :
            l \in 1..MaxLookback, b \in BOOLEAN}
    \cup {[type |-> "relative_strength",
           parameters |-> Dict3("lookback_period", l, "positive_returns_only", b, "top_n", 1)] :
            l \in 1..MaxLookback, b \in BOOLEAN}
    \cup {[type |-> "mean_reversion",
           parameters |-> Dict2("ma_period", l, "deviation_threshold", Q(1, 10))] :
            l \in 1..MaxLookback}
    \cup {[type |-> "risk_parity", parameters |-> Dict1("volatility_window", l)] :
            l \in 1..MaxLookback}
    \cup {[type |-> "tactical_allocation", parameters |-> Dict1("ma_period", l)] :
            l \in 1..MaxLookback}
    \cup {[type |-> "rotation", parameters |-> Dict1("number_of_sectors", 1)]}

\* <<first date, frequency>>: 2024-01-03 is a Wednesday, 2024-01-08 a Monday
Calendars == {<<7, "daily">>, <<7, "weekly">>, <<2, "monthly">>}

UsesCalendar(type) == type \notin {"buy_hold", "tactical_allocation"}

UsesAllocations(type) == type \in {"buy_hold", "momentum"}

InitialCapital == Q(10000, 1)

InitEngine ==
    /\ \E n \in 1..MaxSymbols, t \in 1..MaxDates, st \in Strategies, cal \in Calendars :
       \E alloc \in AllocationSets(n) :
        /\ UsesCalendar(st.type) \/ cal = <<7, "daily">>
        /\ UsesAllocations(st.type) \/ alloc = CHOOSE a \in AllocationSets(n) : TRUE
        /\ price_data \in Panels(n, t, cal[1])
        /\ config = [portfolio |-> [holdings |-> Holdings(n, alloc)],
                     strategy |-> st,
                     initial_capital |-> InitialCapital,
                     rebalancing_frequency |-> cal[2]]
    /\ series = NoSeries
    /\ result = NoCall

\* strategy = Strategy(parameters); strategy.calculate_weights(prices, returns,
\* dates, frequency) on the caller's panel, with the parameters as configured
WeightsOutcome(w) == [op |-> "calculate_weights", exc |-> w.exc, weights |-> w.weights]

calculate_weights_call(cfg, data) ==
    IF Strategy_init(cfg.strategy.type, cfg.strategy.parameters) # "none"
    THEN WeightsOutcome(Raised(Strategy_init(cfg.strategy.type, cfg.strategy.parameters)))
    ELSE WeightsOutcome(calculate_weights(cfg.strategy.type, cfg.strategy.parameters, data,
                                          pct_change_fillna(data.prices),
                                          cfg.rebalancing_frequency))

CalculateWeights ==
    /\ result = NoCall
    /\ result' = calculate_weights_call(config, price_data)
    /\ UNCHANGED <<config, price_data, series>>

\* result = BacktestEngine().run_backtest(config, price_data); the record
\* also holds the config object as the call leaves it
RunBacktest ==
    /\ result = NoCall
    /\ result' = run_backtest(config, price_data)
    /\ config' = result'.config
    /\ UNCHANGED <<price_data, series>>

NextEngine == CalculateWeights \/ RunBacktest

SpecEngine == InitEngine /\ [][NextEngine]_vars

----------------------------------------------------------------------------
(* Properties of the engine                                                *)

\* the returns panel run_backtest derives from the caller's price panel
ReturnsPanel == pct_change_fillna(price_data.prices)

Succeeded(op) == result.op = op /\ result.exc = "none"

WeightsReturned == Succeeded("calculate_weights") \/ Succeeded("run_backtest")

RowSum(row) == SumSeq(row)

RowIsZero(row) == \A j \in 1..Len(row) : row[j] = Zero

RowIsNormalised(row) ==
    /\ \A j \in 1..Len(row) : Ge(row[j], Zero)
    /\ \/ RowIsZero(row)
       \/ Le(AbsQ(Sub(RowSum(row), One)), Q(1, 10^9))

\* C1: every row of every weight matrix a strategy returns is long-only and
\* sums to 1 within 1e-9, or is all zero
C1_WeightRowsNormalised ==
    WeightsReturned =>
        \A t \in 1..Len(result.weights) : RowIsNormalised(result.weights[t])

\* a single-asset tactical_allocation run whose row after the warm-up holds
\* less than the whole portfolio
C1_TacticalSingleAsset ==
    /\ WeightsReturned
    /\ config.strategy.type = "tactical_allocation"
    /\ Len(price_data.columns) = 1
    /\ \E t \in 1..Len(result.weights) :
          /\ ~RowIsZero(result.weights[t])
          /\ Lt(RowSum(result.weights[t]), One)

\* the plain sum over the assets of W[t-1][asset] * R[t][asset]
LaggedProduct(W, R, t) ==
    SumSeq(List([j \in 1..Len(R[t]) |-> Mul(W[t - 1][j], R[t][j])]))

\* W with the row of date t replaced by another row
WithRow(W, t, row) == List([u \in 1..Len(W) |-> IF u = t THEN row ELSE W[u]])

\* C2: for every date index t >= 1 the portfolio return is the sum over the
\* assets of the previous row's weight times the date's return, and the
\* weight row of date t itself does not contribute to it
C2_ReturnsUseLaggedWeights ==
    Succeeded("run_backtest") =>
        \A t \in 2..Len(result.weights) :
            /\ ~HasNaN(result.weights[t - 1]) =>
                   result.returns[t] = LaggedProduct(result.weights, ReturnsPanel, t)
            /\ \A v \in {Zero, One} :
                   calculate_portfolio_returns(
                       WithRow(result.weights, t, ConstRow(Len(result.weights[t]), v)),
                       ReturnsPanel)[t] = result.returns[t]

\* a run in which the weights change from one row to the next and the later
\* date has a non-zero portfolio return
C2_Witness ==
    /\ Succeeded("run_backtest")
    /\ \E t \in 2..Len(result.weights) :
          /\ result.weights[t] # result.weights[t - 1]
          /\ ~HasNaN(result.weights[t - 1])
          /\ ~HasNaN(result.weights[t])
          /\ result.returns[t] # Zero

\* C3: the first portfolio return is 0 and the first portfolio value is the
\* initial capital, whatever the weights of the first row
C3_FirstDateIsNeutral ==
    Succeeded("run_backtest") =>
        /\ ReturnsPanel[1] = ConstRow(Len(price_data.columns), Zero)
        /\ result.returns[1] = Zero
        /\ result.portfolio_values[1] = config.initial_capital

\* a run whose first weight row is fully invested and whose prices move
\* after the first date
C3_Witness ==
    /\ Succeeded("run_backtest")
    /\ Len(result.weights) >= 2
    /\ \E j \in 1..Len(result.weights[1]) : Gt(result.weights[1][j], Zero)
    /\ price_data.prices[2] # price_data.prices[1]
    /\ result.portfolio_values[2] # config.initial_capital

\* the trailing compounded return of asset j that governs the row of date t
TrailingReturn(t, j, lookback) ==
    Sub(ProdSkipNa(AddOne(SubSeq(Column(ReturnsPanel, j), t - lookback, t - 1))), One)

Holding(j) == config.portfolio.holdings[j].allocation

\* row holds exactly the k assets with the highest trailing return, each at
\* its target allocation over the sum of the selected target allocations
IsTopKRow(row, t, k, lookback) ==
    LET S == {j \in 1..Len(row) : row[j] # Zero}
        total == SumSeq(List([j \in 1..Len(row) |-> IF j \in S THEN Holding(j) ELSE Zero]))
    IN  /\ Cardinality(S) = k
        /\ \A j \in S : \A m \in (1..Len(row)) \ S :
               Ge(TrailingReturn(t, j, lookback), TrailingReturn(t, m, lookback))
        /\ \A j \in S : row[j] = Div(Holding(j), total)

MomentumTopKCall ==
    /\ result.op = "run_backtest"
    /\ config.strategy.type = "momentum"
    /\ "top_n" \in DOMAIN config.strategy.parameters
    /\ config.strategy.parameters.top_n <= Len(price_data.columns)
    /\ ~config.strategy.parameters.positive_returns_only
    /\ config.rebalancing_frequency = "daily"
    /\ Len(price_data.dates) > config.strategy.parameters.lookback_period

\* C4: momentum with the holdings' target allocations and top_n = k completes
\* without raising, and every row after the warm-up holds exactly the k assets
\* with the highest trailing compounded return at their renormalised targets
C4_MomentumTopKRenormalised ==
    MomentumTopKCall =>
        /\ result.exc = "none"
        /\ \A t \in (config.strategy.parameters.lookback_period + 1)..Len(price_data.dates) :
               IsTopKRow(result.weights[t], t, config.strategy.parameters.top_n,
                         config.strategy.parameters.lookback_period)

\* the run the claim is about ends in the NameError of equal_weight
C4_Raises == MomentumTopKCall /\ result.exc = "NameError"

IsFlat(prices) == \A t \in 1..Len(prices) : prices[t] = prices[1]

BuyHoldRun == result.op = "run_backtest" /\ config.strategy.type = "buy_hold"

\* C10: buy and hold returns the target allocations on every row, and on a
\* panel whose returns are all zero every portfolio value is the initial capital
C10_BuyHoldConstant ==
    BuyHoldRun =>
        /\ result.exc = "none"
        /\ \A t \in 1..Len(result.weights) : \A j \in 1..Len(price_data.columns) :
               result.weights[t][j] = Holding(j)
        /\ IsFlat(price_data.prices) =>
               \A t \in 1..Len(result.portfolio_values) :
                   result.portfolio_values[t] = config.initial_capital

\* a buy and hold run of two unequal allocations over a flat panel of the
\* longest length
C10_Witness ==
    /\ BuyHoldRun
    /\ result.exc = "none"
    /\ Len(price_data.columns) = 2
    /\ Holding(1) # Holding(2)
    /\ Len(price_data.dates) >= 3
    /\ IsFlat(price_data.prices)
    /\ result.portfolio_values[3] = config.initial_capital

ScheduledStrategies == {"momentum", "relative_strength", "mean_reversion", "risk_parity"}

\* the rebalance-date set of the panel's dates for the requested frequency
RebalanceSet == get_rebalance_dates(price_data.dates, config.rebalancing_frequency).dates

ScheduledWeights == WeightsReturned /\ config.strategy.type \in ScheduledStrategies

\* C11: for momentum, relative strength, mean reversion and risk parity, the
\* weight row of every date index i >= 1 that is not in the rebalance-date
\* set of the frequency equals the row of the date before it
C11_CarriedBetweenRebalanceDates ==
    ScheduledWeights =>
        \A t \in 2..Len(result.weights) :
            price_data.dates[t] \notin RebalanceSet =>
                result.weights[t] = result.weights[t - 1]

\* a weekly schedule whose weights change on a date that is not a Monday
C11_RecomputedOffSchedule ==
    /\ ScheduledWeights
    /\ config.rebalancing_frequency = "weekly"
    /\ \E t \in 2..Len(result.weights) :
          /\ weekday(price_data.dates[t]) # 0
          /\ price_data.dates[t] \notin RebalanceSet
          /\ result.weights[t] # result.weights[t - 1]
          /\ ~HasNaN(result.weights[t])

MaxCalls == 3

\* the number of the call that produced the outcome r
Calls(r) == IF "calls" \in DOMAIN r THEN r.calls ELSE 1

\* result = engine.run_backtest(config, price_data) once more, with the
\* config object and the panel of the call before
RunBacktestAgain ==
    /\ result.op = "run_backtest"
    /\ Calls(result) < MaxCalls
    /\ result' = Put(run_backtest(config, price_data), "calls", Calls(result) + 1)
    /\ config' = result'.config
    /\ UNCHANGED <<price_data, series>>

NextRepeat == RunBacktest \/ RunBacktestAgain

SpecRepeat == InitEngine /\ [][NextRepeat]_vars

\* what a call hands to its caller: the exception raised or the results
Outcome(r) == [k \in DOMAIN r \ {"calls", "config"} |-> r[k]]

\* C15: run_backtest called again with the same config object and the same
\* panel gives the outcome of the call before it, and so of the first call:
\* the same exception, or the same dates, weights, returns, values, drawdown
\* and metrics.
C15_RepeatedCallSameOutcome ==
    [][(result.op = "run_backtest" /\ result'.op = "run_backtest") =>
            Outcome(result') = Outcome(result)]_vars

\* the last of MaxCalls calls on a config that the first call has written
\* target_allocations into has returned results
C15_CalledMaxCallsTimes ==
    /\ Succeeded("run_backtest")
    /\ Calls(result) = MaxCalls
    /\ "target_allocations" \in DOMAIN config.strategy.parameters
    /\ Len(result.weights) >= 2

\* C14: no call changes its arguments: across every call the config (its
\* strategy with the parameters mapping, its portfolio) and the price panel
\* keep the values they had before the call.
C14_InputsUnchanged == [][config' = config /\ price_data' = price_data]_vars

\* run_backtest has returned and the caller's parameters mapping holds a
\* target_allocations entry that the caller never put there
C14_TargetAllocationsWritten ==
    /\ result.op = "run_backtest"
    /\ config.strategy.type \in {"buy_hold", "momentum"}
    /\ "target_allocations" \in DOMAIN config.strategy.parameters
    /\ config.strategy.parameters.target_allocations = holdings_dict(config.portfolio.holdings)

\* a momentum strategy with the positive returns filter has been called and
\* its rebalance schedule was computed
MomentumFiltered ==
    /\ result.op \in {"calculate_weights", "run_backtest"}
    /\ config.strategy.type = "momentum"
    /\ config.strategy.parameters.positive_returns_only
    /\ get_rebalance_dates(price_data.dates, config.rebalancing_frequency).exc = "none"

Lookback == config.strategy.parameters.lookback_period

\* row t is past the warm-up and is recomputed
MomentumRecomputed(t) ==
    /\ t - 1 >= Lookback
    /\ (price_data.dates[t] \in RebalanceSet \/ t - 1 = Lookback)

AllNonPositive(t) ==
    \A j \in 1..Len(price_data.columns) : Le(TrailingReturn(t, j, Lookback), Zero)

\* row u is row t or a row copied from it
KeepsRow(t, u) == u >= t /\ \A m \in (t + 1)..u : ~MomentumRecomputed(m)

\* C24: with positive_returns_only, a recomputed row on which every asset has
\* a non-positive trailing return is all-zero, and so is every row up to the
\* next recomputation; the portfolio return after an all-zero row is 0; the
\* call does not raise.
C24_FilteredOutRowIsZero ==
    MomentumFiltered =>
        \A t \in 1..Len(price_data.dates) :
            (MomentumRecomputed(t) /\ AllNonPositive(t)) =>
                /\ result.exc = "none"
                /\ \A u \in t..Len(price_data.dates) :
                    KeepsRow(t, u) =>
                        /\ RowIsZero(result.weights[u])
                        /\ (result.op = "run_backtest" /\ u < Len(price_data.dates)) =>
                                result.returns[u + 1] = Zero

\* run_backtest on a panel with a filtered-out row and a later row with a
\* rising asset: the call raises NameError
C24_RaisesAfterFilteredOutRow ==
    /\ MomentumFiltered
    /\ result.op = "run_backtest"
    /\ \E t \in 1..Len(price_data.dates) : MomentumRecomputed(t) /\ AllNonPositive(t)
    /\ result.exc = "NameError"

RiskParityWeights == WeightsReturned /\ config.strategy.type = "risk_parity"

VolatilityWindow == config.strategy.parameters.volatility_window

\* the trailing volatility of asset j that row t (index t - 1) is computed from
TrailingVolatility(t, j) == Std(SubSeq(Column(ReturnsPanel, j), t - VolatilityWindow, t - 1))

\* row t is past the warm-up and is recomputed
RiskParityRecomputed(t) ==
    /\ t - 1 >= VolatilityWindow
    /\ (price_data.dates[t] \in RebalanceSet \/ t - 1 = VolatilityWindow)

\* row u is row t or a row that carries row t forward
CarriesRow(t, u) == u >= t /\ \A m \in (t + 1)..u : ~RiskParityRecomputed(m)

AssetsOf(row) == 1..Len(row)

AllVolatilitiesZero(t) == \A j \in 1..Len(price_data.columns) : TrailingVolatility(t, j) = Zero

\* C21: a risk parity row recomputed where every asset has zero trailing
\* volatility, and every row carried forward from it, holds defined numbers
\* only (an all-zero, equal-weight or carried row), never NaN.
C21_AllFlatRowIsDefined ==
    RiskParityWeights =>
        \A t \in 1..Len(result.weights) :
            (RiskParityRecomputed(t) /\ AllVolatilitiesZero(t)) =>
                \A u \in t..Len(result.weights) :
                    CarriesRow(t, u) => ~HasNaN(result.weights[u])

\* a flat panel: the recomputed row is NaN in every entry
C21_AllFlatRowIsNaN ==
    /\ RiskParityWeights
    /\ \E t \in 1..Len(result.weights) :
        /\ RiskParityRecomputed(t)
        /\ AllVolatilitiesZero(t)
        /\ \A j \in AssetsOf(result.weights[t]) : IsNaN(result.weights[t][j])

PositiveVolatility(t) == {j \in 1..Len(price_data.columns) : Gt(TrailingVolatility(t, j), Zero)}

ZeroVolatility(t) == {j \in 1..Len(price_data.columns) : TrailingVolatility(t, j) = Zero}

InverseVolatility(t, j) == Div(One, TrailingVolatility(t, j))

InverseTotal(t) ==
    SumSeq(List([j \in 1..Len(price_data.columns) |->
                    IF j \in PositiveVolatility(t) THEN InverseVolatility(t, j) ELSE Zero]))

\* C29: on a recomputed risk parity row where some asset has positive
\* trailing volatility, every zero-volatility asset has weight 0, every
\* positive-volatility asset has (1/vol) over the sum of 1/vol of the
\* positive-volatility assets, and the row sums to 1.
C29_ZeroVolatilityGetsNothing ==
    RiskParityWeights =>
        \A t \in 1..Len(result.weights) :
            (/\ RiskParityRecomputed(t)
             /\ PositiveVolatility(t) # {}
             /\ PositiveVolatility(t) \cup ZeroVolatility(t) = 1..Len(price_data.columns)) =>
                /\ \A j \in ZeroVolatility(t) : result.weights[t][j] = Zero
                /\ \A j \in PositiveVolatility(t) :
                        result.weights[t][j] = Div(InverseVolatility(t, j), InverseTotal(t))
                /\ Le(AbsQ(Sub(RowSum(result.weights[t]), One)), Q(1, 10^9))

\* a recomputed row with one zero-volatility and one positive-volatility
\* asset: the whole weight is on the latter
C29_MixedVolatilityRow ==
    /\ RiskParityWeights
    /\ \E t \in 1..Len(result.weights) :
        /\ RiskParityRecomputed(t)
        /\ PositiveVolatility(t) # {}
        /\ ZeroVolatility(t) # {}
        /\ \E j \in PositiveVolatility(t) : result.weights[t][j] = One

\* the caller's panel with another price for column j on row r: the two
\* panels have the same dates and symbols and agree on the rows before r
Altered(r, j, price) == [price_data EXCEPT !.prices[r][j] = price]

Alterations ==
    {<<r, j, price>> \in (1..Len(price_data.dates)) \X (1..Len(price_data.columns)) \X PriceSet :
        price # price_data.prices[r][j]}

WeightsOn(panel) == calculate_weights_call(config, panel)

BacktestOn(panel) == run_backtest(config, panel)

SameRowsBefore(r, a, b) == SubSeq(a, 1, r - 1) = SubSeq(b, 1, r - 1)

WeightsAgreeBefore(r, outcome) ==
    outcome.exc = "none" => SameRowsBefore(r, outcome.weights, result.weights)

ReturnsAgreeBefore(r, outcome) ==
    outcome.exc = "none" =>
        /\ SameRowsBefore(r, outcome.weights, result.weights)
        /\ SameRowsBefore(r, outcome.returns, result.returns)

\* C28: no strategy looks ahead: on a panel that agrees with the caller's on
\* the rows before r, calculate_weights returns the same weight rows before
\* r, and run_backtest the same portfolio returns before r
C28_NoLookahead ==
    /\ Succeeded("calculate_weights") =>
          \A a \in Alterations : WeightsAgreeBefore(a[1], WeightsOn(Altered(a[1], a[2], a[3])))
    /\ Succeeded("run_backtest") =>
          \A a \in Alterations : ReturnsAgreeBefore(a[1], BacktestOn(Altered(a[1], a[2], a[3])))

\* a mean reversion strategy whose weights from row r on change with the
\* price of row r, after a first row
C28_WeightsFollowAlteredRow ==
    /\ Succeeded("calculate_weights")
    /\ config.strategy.type = "mean_reversion"
    /\ \E a \in Alterations :
          /\ a[1] >= 2
          /\ WeightsOn(Altered(a[1], a[2], a[3])).exc = "none"
          /\ WeightsOn(Altered(a[1], a[2], a[3])).weights # result.weights

----------------------------------------------------------------------------
(* Mean reversion on prices with several sizes of fall                     *)

WidePriceSet == {Q(1, 1), Q(2, 1), Q(4, 1)}

MeanReversionDates == 3

InitMeanReversion ==
    /\ \E l \in 1..MaxLookback, f \in {"daily", "weekly"} :
        /\ price_data \in {[dates |-> BusinessDays(7, MeanReversionDates),
                             columns |-> SubSeq(SymbolNames, 1, 2),
                             prices |-> p] : p \in [1..MeanReversionDates -> [1..2 -> WidePriceSet]]}
        /\ config = [portfolio |-> [holdings |-> Holdings(2, CHOOSE a \in AllocationSets(2) : TRUE)],
                     strategy |-> [type |-> "mean_reversion",
                                   parameters |-> Dict2("ma_period", l, "deviation_threshold", Q(1, 10))],
                     initial_capital |-> InitialCapital,
                     rebalancing_frequency |-> f]
    /\ series = NoSeries
    /\ result = NoCall

SpecMeanReversion == InitMeanReversion /\ [][NextEngine]_vars

MeanReversionWeights == WeightsReturned /\ config.strategy.type = "mean_reversion"

MaPeriod == config.strategy.parameters.ma_period

\* row t is past the warm-up and is recomputed
MeanReversionRecomputed(t) ==
    /\ t - 1 >= MaPeriod
    /\ (price_data.dates[t] \in RebalanceSet \/ t - 1 = MaPeriod)

\* the mean of the ma_period prices of asset j up to row t
MovingAverage(t, j) ==
    Div(SumSeq(SubSeq(Column(price_data.prices, j), t - MaPeriod + 1, t)), Q(MaPeriod, 1))

\* the deviation of the price of asset j from its moving average at row t,
\* as a fraction of the average
Deviation(t, j) == Div(Sub(price_data.prices[t][j], MovingAverage(t, j)), MovingAverage(t, j))

Oversold(t) ==
    {j \in 1..Len(price_data.columns) :
        Lt(Deviation(t, j), Neg(config.strategy.parameters.deviation_threshold))}

InverseDeviation(t, j) == Div(One, AbsQ(Deviation(t, j)))

InverseDeviationTotal(t) ==
    SumSeq(List([j \in 1..Len(price_data.columns) |->
                    IF j \in Oversold(t) THEN InverseDeviation(t, j) ELSE Zero]))

\* C22: on a recomputed mean reversion row, when some asset is oversold the
\* other assets have weight 0 and each oversold asset has 1/|deviation| over
\* the sum of 1/|deviation| of the oversold assets; when none is oversold
\* every asset has 1/N.
C22_InverselyProportionalToDeviation ==
    MeanReversionWeights =>
        \A t \in 1..Len(result.weights) :
            MeanReversionRecomputed(t) =>
                IF Oversold(t) # {}
                THEN \A j \in 1..Len(price_data.columns) :
                        result.weights[t][j] =
                            IF j \in Oversold(t)
                            THEN Div(InverseDeviation(t, j), InverseDeviationTotal(t))
                            ELSE Zero
                ELSE \A j \in 1..Len(price_data.columns) :
                        result.weights[t][j] = Q(1, Len(price_data.columns))

\* two oversold assets: the one that fell further has the larger weight
C22_DeeperFallWeighsMore ==
    /\ MeanReversionWeights
    /\ \E t \in 1..Len(result.weights) :
        /\ MeanReversionRecomputed(t)
        /\ Oversold(t) = {1, 2}
        /\ Lt(Deviation(t, 1), Deviation(t, 2))
        /\ Gt(result.weights[t][1], result.weights[t][2])
        /\ RowSum(result.weights[t]) = One

----------------------------------------------------------------------------
(* Tactical allocation under a rebalancing frequency                       *)

MaxTacticalDates == 4

\* a tactical allocation strategy over the business days from Monday
\* 2024-01-08 on, under each frequency
InitTactical ==
    /\ \E n \in 1..MaxSymbols, t \in 1..MaxTacticalDates, l \in 1..MaxLookback,
          f \in {"daily", "weekly", "monthly"} :
        /\ price_data \in Panels(n, t, 7)
        /\ config = [portfolio |-> [holdings |-> Holdings(n, CHOOSE a \in AllocationSets(n) : TRUE)],
                     strategy |-> [type |-> "tactical_allocation",
                                   parameters |-> Dict1("ma_period", l)],
                     initial_capital |-> InitialCapital,
                     rebalancing_frequency |-> f]
    /\ series = NoSeries
    /\ result = NoCall

SpecTactical == InitTactical /\ [][NextEngine]_vars

TacticalWeights == WeightsReturned /\ config.strategy.type = "tactical_allocation"

\* C12: once the moving-average warm-up of tactical allocation is over, the
\* weight row of a date that is not in the rebalance-date set of the
\* requested frequency equals the row of the date before it
C12_TacticalHonoursFrequency ==
    TacticalWeights =>
        \A t \in 2..Len(result.weights) :
            (/\ t - 2 >= config.strategy.parameters.ma_period
             /\ price_data.dates[t] \notin RebalanceSet) =>
                result.weights[t] = result.weights[t - 1]

\* a weekly tactical allocation whose row switches between risk-on and
\* risk-off on a date after the warm-up that is not a Monday
C12_SwitchesOffSchedule ==
    /\ TacticalWeights
    /\ config.rebalancing_frequency = "weekly"
    /\ \E t \in 2..Len(result.weights) :
          /\ t - 2 >= config.strategy.parameters.ma_period
          /\ weekday(price_data.dates[t]) # 0
          /\ price_data.dates[t] \notin RebalanceSet
          /\ result.weights[t] # result.weights[t - 1]
          /\ RowSum(result.weights[t]) = One
          /\ RowSum(result.weights[t - 1]) = One

----------------------------------------------------------------------------
(* The rebalance scheduler on a span of business days                      *)

MaxStart == 59

\* the lengths of a span in calendar days: two weeks, two months, and a year
\* without and with its anniversary day
SpanLengths == {14, 60, 365, 366}

Frequencies == {"daily", "weekly", "monthly", "quarterly", "annually"}

IsBusinessDay(d) == weekday(d) < 5

\* pd.bdate_range over the days calendar days from start on
SpanDates(start, days) == SelectSeq(List([k \in 1..days |-> start + k - 1]), IsBusinessDay)

InitScheduler ==
    /\ \E start \in 0..MaxStart, days \in SpanLengths, f \in Frequencies :
        /\ price_data = [dates |-> SpanDates(start, days), columns |-> <<>>]
        /\ config = [NoConfig EXCEPT !.rebalancing_frequency = f]
    /\ series = NoSeries
    /\ result = NoCall

ScheduleOutcome(r) == [op |-> "get_rebalance_dates", exc |-> r.exc, dates |-> r.dates]

\* result = MomentumStrategy({})._get_rebalance_dates(dates, frequency)
GetRebalanceDates ==
    /\ result = NoCall
    /\ result' = ScheduleOutcome(get_rebalance_dates(price_data.dates,
                                                     config.rebalancing_frequency))
    /\ UNCHANGED <<config, price_data, series>>

NextScheduler == GetRebalanceDates

SpecScheduler == InitScheduler /\ [][NextScheduler]_vars

Scheduled(f) == result.op = "get_rebalance_dates" /\ config.rebalancing_frequency = f

LastDate == price_data.dates[Len(price_data.dates)]

\* the dates are the business days of a span of one year
YearSpan == Len(price_data.dates) > 0 /\ LastDate - price_data.dates[1] >= 360

\* C13: for the business days of a one-year span, the monthly schedule is
\* returned and holds between 10 and 12 dates, all of them dates of the span
C13_MonthlyYearCount ==
    (Scheduled("monthly") /\ YearSpan) =>
        /\ result.exc = "none"
        /\ Cardinality(result.dates) \in 10..12
        /\ result.dates \subseteq SeqToSet(price_data.dates)

\* a one-year span that touches thirteen calendar months and gets thirteen
\* monthly rebalance dates
C13_ThirteenDates ==
    /\ Scheduled("monthly")
    /\ YearSpan
    /\ result.exc = "none"
    /\ Cardinality(result.dates) = 13

PeriodicFrequencies == {"monthly", "quarterly", "annually"}

\* the earliest day on or after start whose weekday is Monday: start itself
\* when start is a Monday
EarliestMonday(start) == start + ((7 - weekday(start)) % 7)

\* the dates of the sequence that lie in the period of date and on or after
\* the earliest Monday of that period
OnOrAfterMonday(frequency, date) ==
    {d \in SeqToSet(price_data.dates) :
        /\ PeriodStart(frequency, d) = PeriodStart(frequency, date)
        /\ d >= EarliestMonday(PeriodStart(frequency, date))}

\* C18: with a periodic frequency, every period that has a trading date on or
\* after its first Monday (day 1 when the period starts on a Monday) gets the
\* earliest such trading date as its rebalance date.
C18_FirstTradingDateFromFirstMonday ==
    \A f \in PeriodicFrequencies :
        Scheduled(f) =>
            \A k \in 1..Len(price_data.dates) :
                OnOrAfterMonday(f, price_data.dates[k]) # {} =>
                    /\ result.exc = "none"
                    /\ MinOfSet(OnOrAfterMonday(f, price_data.dates[k])) \in result.dates

\* a month that starts on a Monday whose day 1 is a trading date: the call
\* returns normally, schedules day 8 and leaves day 1 out
C18_MondayStartSkipsDayOne ==
    /\ Scheduled("monthly")
    /\ result.exc = "none"
    /\ \E k \in 1..Len(price_data.dates) :
        LET d == price_data.dates[k]
        IN  /\ d = PeriodStart("monthly", d)
            /\ weekday(d) = 0
            /\ d \notin result.dates
            /\ d + 7 \in result.dates

\* the periods of the sequence without a trading date on or after their first
\* Monday, each named by its first day
EmptyPeriods(f) ==
    {PeriodStart(f, price_data.dates[k]) : k \in {j \in 1..Len(price_data.dates) : OnOrAfterMonday(f, price_data.dates[j]) = {}}}

\* C19: when some period of the sequence has no trading date on or after its
\* first Monday, the scheduler returns normally, with no date of that period
\* and with the events of the other periods; it never raises.
C19_EmptyPeriodSkipped ==
    \A f \in PeriodicFrequencies :
        (Scheduled(f) /\ EmptyPeriods(f) # {}) =>
            /\ result.exc = "none"
            /\ \A d \in result.dates : PeriodStart(f, d) \notin EmptyPeriods(f)
            /\ \A k \in 1..Len(price_data.dates) :
                OnOrAfterMonday(f, price_data.dates[k]) # {} =>
                    \E d \in result.dates : PeriodStart(f, d) = PeriodStart(f, price_data.dates[k])

\* a sequence that ends in the first days of a month, before its first
\* Monday: the call raises
C19_RaisesOnTrailingPartialMonth ==
    /\ Scheduled("monthly")
    /\ Len(price_data.dates) > 0
    /\ OnOrAfterMonday("monthly", LastDate) = {}
    /\ weekday(PeriodStart("monthly", LastDate)) # 0
    /\ result.exc = "ValueError"

\* date's calendar week, Monday to Sunday
WeekOf(date) == date \div 7

TradingDatesOfWeek(w) == {d \in SeqToSet(price_data.dates) : WeekOf(d) = w}

\* C20: with frequency weekly, every calendar week that has a trading date
\* gets exactly one rebalance date, the first trading date of that week.
C20_FirstTradingDateOfEachWeek ==
    Scheduled("weekly") =>
        /\ result.exc = "none"
        /\ \A k \in 1..Len(price_data.dates) :
            {d \in result.dates : WeekOf(d) = WeekOf(price_data.dates[k])}
                = {MinOfSet(TradingDatesOfWeek(WeekOf(price_data.dates[k])))}

\* a sequence whose first week has trading dates but not its Monday: no date
\* of that week is scheduled
C20_WeekWithoutMondayUnscheduled ==
    /\ Scheduled("weekly")
    /\ Len(price_data.dates) > 0
    /\ weekday(price_data.dates[1]) # 0
    /\ \A d \in result.dates : WeekOf(d) # WeekOf(price_data.dates[1])
    /\ result.dates # {}

----------------------------------------------------------------------------
(* The metrics calculators on a return series                              *)

MaxLen == 4

ReturnSet == {Q(-1, 2), Zero, Q(1, 100), Q(1, 2)}

\* return series of up to MaxLen observations
ReturnSeries == UNION {[1..k -> ReturnSet] : k \in 0..MaxLen}

InitMetrics ==
    /\ \E r \in ReturnSeries :
          series = [portfolio_returns |-> List(r), benchmark_returns |-> <<>>]
    /\ config = NoConfig
    /\ price_data = NoPriceData
    /\ result = NoCall

\* PerformanceMetricsCalculator().calculate_metrics(returns)
CalculateMetrics ==
    /\ result = NoCall
    /\ result' = [op |-> "calculate_metrics", exc |-> "none",
                  metrics |-> calculate_metrics(series.portfolio_returns)]
    /\ UNCHANGED <<config, price_data, series>>

\* BacktestEngine()._calculate_metrics(returns, drawdown) with the drawdown
\* run_backtest derives from the returns
EngineCalculateMetrics ==
    /\ result = NoCall
    /\ result' = [op |-> "_calculate_metrics", exc |-> "none",
                  metrics |-> BacktestEngine_calculate_metrics(
                      series.portfolio_returns,
                      calculate_drawdown(calculate_portfolio_values(
                          series.portfolio_returns, InitialCapital)))]
    /\ UNCHANGED <<config, price_data, series>>

NextMetrics == CalculateMetrics \/ EngineCalculateMetrics

SpecMetrics == InitMetrics /\ [][NextMetrics]_vars

MetricsReturned == result.op \in {"calculate_metrics", "_calculate_metrics"}

Observations == series.portfolio_returns

AllEqual(s) == \A i \in 1..Len(s) : s[i] = s[1]

AllZero(s) == \A i \in 1..Len(s) : s[i] = Zero

NumericFields ==
    {"total_return", "annualized_return", "volatility", "sharpe_ratio", "max_drawdown",
     "sortino_ratio", "calmar_ratio", "var_95", "cvar_95", "win_rate", "profit_factor"}

\* C7: on an all-zero return series of length >= 2 both calculators return,
\* without raising, volatility = sharpe = max_drawdown = win_rate =
\* profit_factor = 0
C7_AllZeroSeriesIsNeutral ==
    (MetricsReturned /\ Len(Observations) >= 2 /\ AllZero(Observations)) =>
        /\ result.exc = "none"
        /\ result.metrics.volatility = Zero
        /\ result.metrics.sharpe_ratio = Zero
        /\ result.metrics.max_drawdown = Zero
        /\ result.metrics.win_rate = Zero
        /\ result.metrics.profit_factor = Zero

\* PerformanceMetricsCalculator has returned for the longest all-zero series
C7_Witness ==
    /\ result.op = "calculate_metrics"
    /\ Len(Observations) = 4
    /\ AllZero(Observations)
    /\ result.metrics.win_rate = Zero

\* C8: for an empty series and for a series whose observations are all equal
\* both calculators return the record in which every field is 0
C8_ZeroVarianceIsNeutral ==
    (MetricsReturned /\ AllEqual(Observations)) =>
        /\ result.exc = "none"
        /\ result.metrics = get_empty_metrics

\* PerformanceMetricsCalculator reports a total return for a constant
\* non-zero series
C8_ConstantSeriesReported ==
    /\ result.op = "calculate_metrics"
    /\ Len(Observations) >= 2
    /\ AllEqual(Observations)
    /\ ~AllZero(Observations)
    /\ result.metrics.total_return # Zero

\* C9: for a non-empty return series every numeric field of the record of
\* PerformanceMetricsCalculator.calculate_metrics, and of the metrics that
\* run_backtest computes from a portfolio return series (whose first return
\* is 0), is a finite number
C9_MetricsAreFinite ==
    (/\ MetricsReturned
     /\ Len(Observations) >= 1
     /\ result.op = "_calculate_metrics" => Observations[1] = Zero) =>
        \A f \in NumericFields : IsFinite(result.metrics[f])

\* the engine's metrics of a portfolio return series with exactly one
\* negative return hold a NaN Sortino ratio
C9_EngineSortinoIsNaN ==
    /\ result.op = "_calculate_metrics"
    /\ Len(Observations) >= 2
    /\ Observations[1] = Zero
    /\ Len(SelectSeq(Observations, IsNeg)) = 1
    /\ IsNaN(result.metrics.sortino_ratio)

\* (annualized_return - risk_free) / volatility with the compounded
\* annualized return (1 + total_return)^(252/n) - 1
CompoundedSharpe ==
    Div(Sub(calculate_annualized_return(Observations), RISK_FREE_RATE),
        calculate_volatility(Observations))

HasVolatility == Len(Observations) >= 2 /\ ~AllEqual(Observations)

\* C26: for a series with non-zero volatility each calculator reports the
\* Sharpe ratio (annualized_return - risk_free) / volatility of the
\* compounded annualized return (the metrics calculator rounds what it
\* reports), so both report the same ratio.
C26_SharpeUsesCompoundedReturn ==
    (MetricsReturned /\ HasVolatility) =>
        result.metrics.sharpe_ratio =
            IF result.op = "calculate_metrics" THEN round_to_decimal(CompoundedSharpe)
            ELSE CompoundedSharpe

\* the metrics calculator reports the ratio of the arithmetic mean return
\* times 252, which is not the ratio of the compounded return
C26_SharpeUsesArithmeticMean ==
    /\ result.op = "calculate_metrics"
    /\ HasVolatility
    /\ result.metrics.sharpe_ratio =
         round_to_decimal(Div(Sub(Mul(Mean(Observations), Q(TRADING_DAYS_YEAR, 1)), RISK_FREE_RATE),
                              calculate_volatility(Observations)))
    /\ result.metrics.sharpe_ratio # round_to_decimal(CompoundedSharpe)
    /\ Observations = <<Q(1, 100), Zero>>

----------------------------------------------------------------------------
(* Benchmark comparison (src/python/performance_metrics.py)                *)
(* A pandas Series is a record of its labels and its values.               *)

\* pd.Series(list): the labels are 0 .. len - 1
Series(list) ==
    [index |-> List([i \in 1..Len(list) |-> i - 1]), values |-> list]

\* Series.dropna(): the entries that are not NaN, under their labels
Series_dropna(s) ==
    LET keep == SelectSeq(List([i \in 1..Len(s.values) |-> i]),
                          LAMBDA i : ~IsNaN(s.values[i]))
    IN  [index |-> List([k \in 1..Len(keep) |-> s.index[keep[k]]]),
         values |-> List([k \in 1..Len(keep) |-> s.values[keep[k]]])]

\* Series.iloc[-m:]
Series_tail(s, m) ==
    [index |-> SubSeq(s.index, Len(s.index) - m + 1, Len(s.index)),
     values |-> SubSeq(s.values, Len(s.values) - m + 1, Len(s.values))]

Labels(s) == SeqToSet(s.index)

ValueAt(s, label) == s.values[IndexOf(s.index, label)]

\* a - b on Series: the values are paired by label over the union of the
\* labels, NaN where one side has no such label
Series_sub(a, b) ==
    LET all == Labels(a) \cup Labels(b)
        lo == MinOfSet(all)
        hi == -MinOfSet({-l : l \in all})
        labels == SelectSeq(List([k \in 1..(hi - lo + 1) |-> lo + k - 1]),
                            LAMBDA l : l \in all)
    IN  List([k \in 1..Len(labels) |->
                 IF labels[k] \in Labels(a) /\ labels[k] \in Labels(b)
                 THEN Sub(ValueAt(a, labels[k]), ValueAt(b, labels[k]))
                 ELSE NaN])

\* a[mask] for a boolean Series mask = Cond(b): the mask is aligned with a by
\* label and cannot be aligned when a has a label that the mask lacks
Unalignable(a, b) == \E l \in Labels(a) : l \notin Labels(b)

MaskSelect(a, b, Cond(_)) ==
    LET keep == SelectSeq(List([i \in 1..Len(a.values) |-> i]),
                          LAMBDA i : Cond(ValueAt(b, a.index[i])))
    IN  List([k \in 1..Len(keep) |-> a.values[keep[k]]])

\* np.cov(x, y)[0, 1]: by position, ddof = 1
Cov(x, y) ==
    LET mx == Mean(x)
        my == Mean(y)
    IN  IF Len(x) <= 1 THEN NaN
        ELSE Div(SumSeq(List([i \in 1..Len(x) |-> Mul(Sub(x[i], mx), Sub(y[i], my))])),
                 Q(Len(x) - 1, 1))

calculate_beta(portfolio_returns, benchmark_returns) ==
    LET x == portfolio_returns.values
        y == benchmark_returns.values
        covariance == Cov(x, y)
        \* np.var(Series): ddof = 0
        benchmark_variance == VarDdof(y, 0)
    IN  IF Len(x) # Len(y) \/ Len(x) <= 1 THEN Zero
        ELSE IF benchmark_variance # Zero THEN Div(covariance, benchmark_variance)
        ELSE Zero

calculate_alpha(portfolio_returns, benchmark_returns, beta) ==
    LET portfolio_annualized == calculate_annualized_return(portfolio_returns.values)
        benchmark_annualized == calculate_annualized_return(benchmark_returns.values)
        expected_return ==
            Add(RISK_FREE_RATE, Mul(beta, Sub(benchmark_annualized, RISK_FREE_RATE)))
    IN  IF Len(portfolio_returns.values) # Len(benchmark_returns.values) THEN Zero
        ELSE Sub(portfolio_annualized, expected_return)

\* np.corrcoef(x, y)[0, 1] = c_xy / sqrt(c_xx * c_yy), clipped to [-1, 1]
calculate_correlation(portfolio_returns, benchmark_returns) ==
    LET x == portfolio_returns.values
        y == benchmark_returns.values
        c == Div(Cov(x, y), Sqrt(Mul(VarDdof(x, 1), VarDdof(y, 1))))
        clipped == IF Gt(c, One) THEN One ELSE IF Lt(c, Neg(One)) THEN Neg(One) ELSE c
    IN  IF Len(x) # Len(y) \/ Len(x) <= 1 THEN Zero
        ELSE IF IsNaN(clipped) THEN Zero ELSE clipped

calculate_tracking_error(portfolio_returns, benchmark_returns) ==
    LET excess_returns == Series_sub(portfolio_returns, benchmark_returns)
    IN  IF Len(portfolio_returns.values) # Len(benchmark_returns.values) THEN Zero
        ELSE Mul(Std(excess_returns), Sqrt(Q(TRADING_DAYS_YEAR, 1)))

calculate_information_ratio(portfolio_returns, benchmark_returns) ==
    LET excess_returns == Series_sub(portfolio_returns, benchmark_returns)
        tracking_error == calculate_tracking_error(portfolio_returns, benchmark_returns)
        excess_return_annualized == Mul(Mean(excess_returns), Q(TRADING_DAYS_YEAR, 1))
    IN  IF Len(portfolio_returns.values) # Len(benchmark_returns.values) THEN Zero
        ELSE IF Eq(tracking_error, Zero) THEN Zero
        ELSE Div(excess_return_annualized, tracking_error)

calculate_treynor_ratio(portfolio_returns, beta) ==
    IF Eq(beta, Zero) THEN Zero
    ELSE Div(Sub(calculate_annualized_return(portfolio_returns.values), RISK_FREE_RATE), beta)

\* one capture ratio: [exc, ratio]
capture_ratio(portfolio_returns, benchmark_returns, Market(_)) ==
    LET market_days == SelectSeq(benchmark_returns.values, Market)
        market_portfolio == Mean(MaskSelect(portfolio_returns, benchmark_returns, Market))
        market_benchmark == Mean(market_days)
    IN  IF Len(market_days) = 0 THEN [exc |-> "none", ratio |-> Zero]
        ELSE IF Unalignable(portfolio_returns, benchmark_returns)
        THEN [exc |-> "IndexingError", ratio |-> Zero]
        ELSE [exc |-> "none",
              ratio |-> IF market_benchmark # Zero
                        THEN Div(market_portfolio, market_benchmark) ELSE Zero]

calculate_capture_ratios(portfolio_returns, benchmark_returns) ==
    LET up == capture_ratio(portfolio_returns, benchmark_returns, IsPos)
        down == capture_ratio(portfolio_returns, benchmark_returns, IsNeg)
    IN  IF Len(portfolio_returns.values) # Len(benchmark_returns.values)
        THEN [exc |-> "none", up_capture |-> Zero, down_capture |-> Zero]
        ELSE IF up.exc # "none" THEN [exc |-> up.exc, up_capture |-> Zero, down_capture |-> Zero]
        ELSE [exc |-> down.exc, up_capture |-> up.ratio, down_capture |-> down.ratio]

\* the threshold of "if min_length < 10"
MinDataPoints == 10

Unavailable(why) == [value |-> "None", logged |-> why]

\* calculate_benchmark_comparison(portfolio_returns, benchmark_returns) on two
\* lists, with the default benchmark symbol
calculate_benchmark_comparison(portfolio_list, benchmark_list) ==
    LET portfolio_clean == Series_dropna(Series(portfolio_list))
        benchmark_clean == Series_dropna(Series(benchmark_list))
        min_length == Min2(Len(portfolio_clean.values), Len(benchmark_clean.values))
        portfolio_aligned == Series_tail(portfolio_clean, min_length)
        benchmark_aligned == Series_tail(benchmark_clean, min_length)
        beta == calculate_beta(portfolio_aligned, benchmark_aligned)
        capture == calculate_capture_ratios(portfolio_aligned, benchmark_aligned)
    IN  IF Len(portfolio_list) = 0 \/ Len(benchmark_list) = 0 THEN Unavailable("empty")
        ELSE IF min_length = 0 THEN Unavailable("no overlapping data")
        ELSE IF min_length < MinDataPoints THEN Unavailable("insufficient data")
        \* except Exception: the error is logged and None is returned
        ELSE IF capture.exc # "none" THEN Unavailable(capture.exc)
        ELSE [value |-> "record",
              logged |-> "none",
              benchmark_total_return |->
                  round_to_decimal(calculate_total_return(benchmark_aligned.values)),
              benchmark_annualized_return |->
                  round_to_decimal(calculate_annualized_return(benchmark_aligned.values)),
              benchmark_volatility |->
                  round_to_decimal(calculate_volatility(benchmark_aligned.values)),
              benchmark_sharpe_ratio |->
                  round_to_decimal(calculate_sharpe_ratio(benchmark_aligned.values)),
              beta |-> round_to_decimal(beta),
              alpha |-> round_to_decimal(
                  calculate_alpha(portfolio_aligned, benchmark_aligned, beta)),
              correlation |-> round_to_decimal(
                  calculate_correlation(portfolio_aligned, benchmark_aligned)),
              tracking_error |-> round_to_decimal(
                  calculate_tracking_error(portfolio_aligned, benchmark_aligned)),
              information_ratio |-> round_to_decimal(
                  calculate_information_ratio(portfolio_aligned, benchmark_aligned)),
              treynor_ratio |-> round_to_decimal(
                  calculate_treynor_ratio(portfolio_aligned, beta)),
              up_capture |-> round_to_decimal(capture.up_capture),
              down_capture |-> round_to_decimal(capture.down_capture)]

----------------------------------------------------------------------------
(* The benchmark comparison on two return lists                            *)

\* the longest list has MinDataPoints + MaxExtra entries
MaxExtra == 1

BenchSet == {Q(-1, 100), Zero, Q(1, 100)}

PortfolioPatterns == [1..2 -> BenchSet]

BenchmarkPatterns == {<<Q(1, 100), Q(-1, 100)>>, <<Zero, Zero>>, <<Q(1, 100), Q(1, 50)>>}

Missing == {"none", "first", "last"}

\* n entries that repeat the pattern, one of them missing (NaN) or none
ReturnList(pattern, n, missing) ==
    List([i \in 1..n |->
             IF (missing = "first" /\ i = 1) \/ (missing = "last" /\ i = n) THEN NaN
             ELSE pattern[((i - 1) % Len(pattern)) + 1]])

ListLengths == (MinDataPoints - 1)..(MinDataPoints + MaxExtra)

InitBench ==
    /\ \E pp \in PortfolioPatterns, pn \in ListLengths, pm \in Missing :
       \E same \in BOOLEAN, bp \in BenchmarkPatterns, bn \in ListLengths, bm \in Missing :
          /\ same => (bp = <<Zero, Zero>> /\ bn = pn /\ bm = pm)
          /\ series = [portfolio_returns |-> ReturnList(pp, pn, pm),
                       benchmark_returns |-> IF same THEN ReturnList(pp, pn, pm)
                                             ELSE ReturnList(bp, bn, bm)]
    /\ config = NoConfig
    /\ price_data = NoPriceData
    /\ result = NoCall

\* PerformanceMetricsCalculator().calculate_benchmark_comparison(
\*     portfolio_returns, benchmark_returns)
CalculateBenchmarkComparison ==
    /\ result = NoCall
    /\ result' = [op |-> "calculate_benchmark_comparison", exc |-> "none",
                  comparison |-> calculate_benchmark_comparison(
                      series.portfolio_returns, series.benchmark_returns)]
    /\ UNCHANGED <<config, price_data, series>>

NextBench == CalculateBenchmarkComparison

SpecBench == InitBench /\ [][NextBench]_vars

Compared == result.op = "calculate_benchmark_comparison"

NonMissing(list) == Len(dropna(list))

ComparisonFields ==
    {"benchmark_total_return", "benchmark_annualized_return", "benchmark_volatility",
     "benchmark_sharpe_ratio", "beta", "alpha", "correlation", "tracking_error",
     "information_ratio", "treynor_ratio", "up_capture", "down_capture"}

IdenticalSeries ==
    /\ Compared
    /\ series.portfolio_returns = series.benchmark_returns
    /\ NonMissing(series.portfolio_returns) >= MinDataPoints

\* C5: for a portfolio series identical to the benchmark series with at
\* least 10 observations the record has beta = 1, alpha = 0 to rounding,
\* correlation = 1, tracking_error = 0, information_ratio = 0 and no NaN
C5_IdenticalSeriesStatistics ==
    IdenticalSeries =>
        /\ result.comparison.value = "record"
        /\ result.comparison.beta = One
        /\ Le(AbsQ(result.comparison.alpha), Q(1, 10^6))
        /\ result.comparison.correlation = One
        /\ result.comparison.tracking_error = Zero
        /\ result.comparison.information_ratio = Zero
        /\ \A f \in ComparisonFields : IsFinite(result.comparison[f])

\* ten identical observations that vary: beta is 10/9 rounded to six places
C5_BetaOfTenObservations ==
    /\ IdenticalSeries
    /\ NonMissing(series.portfolio_returns) = 10
    /\ result.comparison.value = "record"
    /\ result.comparison.beta = Q(1111111, 10^6)

\* C6: the comparison is unavailable whenever either series has fewer than
\* 10 non-missing observations, and a record is returned when each series
\* has exactly 10
C6_TenObservationsThreshold ==
    Compared =>
        /\ Min2(NonMissing(series.portfolio_returns),
                NonMissing(series.benchmark_returns)) < 10 =>
               result.comparison.value = "None"
        /\ (/\ NonMissing(series.portfolio_returns) = 10
            /\ NonMissing(series.benchmark_returns) = 10) =>
               result.comparison.value = "record"

\* ten observations in each list, at positions that differ: the comparison
\* is unavailable because of an IndexingError
C6_UnavailableWithTen ==
    /\ Compared
    /\ NonMissing(series.portfolio_returns) = 10
    /\ NonMissing(series.benchmark_returns) = 10
    /\ result.comparison.value = "None"
    /\ result.comparison.logged = "IndexingError"

\* with fewer than 10 non-missing observations the comparison is unavailable
C6_BelowThresholdUnavailable ==
    (Compared /\ Min2(NonMissing(series.portfolio_returns),
                      NonMissing(series.benchmark_returns)) < MinDataPoints) =>
        result.comparison.value = "None"

\* ten observations in each list at the same positions give a record
C6_SamePositionsGiveRecord ==
    (/\ Compared
     /\ NonMissing(series.portfolio_returns) >= MinDataPoints
     /\ NonMissing(series.benchmark_returns) >= MinDataPoints
     /\ Labels(Series_tail(Series_dropna(Series(series.portfolio_returns)), MinDataPoints))
          = Labels(Series_tail(Series_dropna(Series(series.benchmark_returns)), MinDataPoints))
     /\ NonMissing(series.portfolio_returns) = NonMissing(series.benchmark_returns)) =>
        result.comparison.value = "record"

\* the last m non-missing observations of a list
Trailing(list, m) == SubSeq(dropna(list), Len(dropna(list)) - m + 1, Len(dropna(list)))

PairedLength == Min2(NonMissing(series.portfolio_returns), NonMissing(series.benchmark_returns))

\* the k-th trailing portfolio observation minus the k-th trailing benchmark
\* observation
PairedExcess ==
    List([k \in 1..PairedLength |->
             Sub(Trailing(series.portfolio_returns, PairedLength)[k],
                 Trailing(series.benchmark_returns, PairedLength)[k])])

BothLongEnough ==
    /\ Compared
    /\ NonMissing(series.portfolio_returns) >= MinDataPoints
    /\ NonMissing(series.benchmark_returns) >= MinDataPoints

\* C23: two series with at least 10 non-missing observations each, of equal
\* or different lengths, give a record, and its relative statistics are
\* computed over the min(a, b) trailing observations paired by position: the
\* tracking error is the annualised deviation of the paired differences.
C23_TrailingPairsCompared ==
    BothLongEnough =>
        /\ result.comparison.value = "record"
        /\ result.comparison.tracking_error =
             round_to_decimal(Mul(Std(PairedExcess), Sqrt(Q(TRADING_DAYS_YEAR, 1))))

\* series of different lengths, both long enough and without missing
\* entries: the comparison is unavailable
C23_DifferentLengthsUnavailable ==
    /\ BothLongEnough
    /\ NonMissing(series.portfolio_returns) # NonMissing(series.benchmark_returns)
    /\ NonMissing(series.portfolio_returns) = Len(series.portfolio_returns)
    /\ NonMissing(series.benchmark_returns) = Len(series.benchmark_returns)
    /\ result.comparison.value = "None"
    /\ result.comparison.logged = "IndexingError"

----------------------------------------------------------------------------
(* BenchmarkService.compare_to_multiple_benchmarks                         *)
(* (src/python/benchmark_service.py).  The service holds the returns of    *)
(* the benchmarks it has fetched in _benchmark_cache; the portfolio series *)
(* carries the dates of the cached series as its labels.                   *)

None == "None"

\* getattr(comp, f'benchmark_{metric}', None) on a BenchmarkComparison: a
\* record of the value, None for an attribute the dataclass does not have
benchmark_attribute(comp, metric) ==
    IF ("benchmark_" \o metric) \in DOMAIN comp
    THEN [value |-> "float", float |-> comp["benchmark_" \o metric]]
    ELSE [value |-> None]

positive_metrics ==
    <<"total_return", "annualized_return", "sharpe_ratio", "sortino_ratio", "calmar_ratio">>

negative_metrics == <<"volatility", "max_drawdown">>

\* better_count of the loop over comparisons, for a metric where higher is better
better_count_higher(portfolio_value, comparisons, metric) ==
    Cardinality({i \in 1..Len(comparisons) :
                    /\ benchmark_attribute(comparisons[i], metric).value # None
                    /\ Gt(portfolio_value, benchmark_attribute(comparisons[i], metric).float)})

\* better_count of the loop over comparisons, for a metric where lower is better
better_count_lower(portfolio_value, comparisons, metric) ==
    Cardinality({i \in 1..Len(comparisons) :
                    /\ benchmark_attribute(comparisons[i], metric).value # None
                    /\ Lt(portfolio_value, benchmark_attribute(comparisons[i], metric).float)})

\* BenchmarkService._calculate_rankings(portfolio_metrics, comparisons): a
\* dict from f'{metric}_rank' to the rank
calculate_rankings(portfolio_metrics, comparisons) ==
    LET ranked == {m \in SeqToSet(positive_metrics) \cup SeqToSet(negative_metrics) :
                      m \in DOMAIN portfolio_metrics}
    IN  [key \in {m \o "_rank" : m \in ranked} |->
            LET metric == CHOOSE m \in ranked : m \o "_rank" = key
            IN  IF metric \in SeqToSet(positive_metrics)
                THEN better_count_higher(portfolio_metrics[metric], comparisons, metric) + 1
                ELSE better_count_lower(portfolio_metrics[metric], comparisons, metric) + 1]

\* get_benchmark_data(symbol, start_date, end_date): the cached BenchmarkData,
\* None for a symbol the data service has no rows for
get_benchmark_data(cache, symbol) ==
    IF symbol \in DOMAIN cache THEN [value |-> "record", returns |-> cache[symbol]]
    ELSE [value |-> None]

\* compare_to_benchmark(portfolio_returns, benchmark_symbol, start_date, end_date)
compare_to_benchmark(cache, portfolio_returns, benchmark_symbol) ==
    LET benchmark_data == get_benchmark_data(cache, benchmark_symbol)
        portfolio_clean == dropna(portfolio_returns)
        benchmark_clean == dropna(benchmark_data.returns)
        min_length == Min2(Len(portfolio_clean), Len(benchmark_clean))
    IN  IF benchmark_data.value = None THEN Unavailable("no benchmark data")
        ELSE IF Len(portfolio_returns) = 0 THEN Unavailable("empty")
        ELSE IF min_length = 0 THEN Unavailable("no overlapping data")
        ELSE [benchmark_symbol |-> benchmark_symbol] @@
             calculate_benchmark_comparison(
                 SubSeq(portfolio_clean, Len(portfolio_clean) - min_length + 1, Len(portfolio_clean)),
                 SubSeq(benchmark_clean, Len(benchmark_clean) - min_length + 1, Len(benchmark_clean)))

\* the comparisons list after the loop over valid_symbols
successful_comparisons(cache, portfolio_returns, valid_symbols) ==
    SelectSeq(List([k \in 1..Len(valid_symbols) |->
                       compare_to_benchmark(cache, portfolio_returns, valid_symbols[k])]),
              LAMBDA comparison : comparison.value # None)

\* max(comparisons, key=lambda x: x.correlation).benchmark_symbol: the first
\* comparison that no other exceeds
best_benchmark_of(comparisons) ==
    LET k == CHOOSE k \in 1..Len(comparisons) :
                 /\ \A i \in 1..Len(comparisons) :
                        ~Gt(comparisons[i].correlation, comparisons[k].correlation)
                 /\ \A i \in 1..(k - 1) :
                        Gt(comparisons[k].correlation, comparisons[i].correlation)
    IN  comparisons[k].benchmark_symbol

\* the labels of the DataFrame _create_correlation_matrix returns
correlation_matrix_labels(comparisons) ==
    <<"Portfolio">> \o List([k \in 1..Len(comparisons) |-> comparisons[k].benchmark_symbol])

multiple_comparison(portfolio_metrics, comparisons, include_correlation_matrix) ==
    IF Len(comparisons) = 0 THEN [value |-> None, logged |-> "no successful comparison"]
    ELSE [value |-> "record",
          portfolio_metrics |-> portfolio_metrics,
          benchmarks |-> comparisons,
          relative_rankings |-> calculate_rankings(portfolio_metrics, comparisons),
          best_benchmark |-> best_benchmark_of(comparisons),
          correlation_matrix |-> IF include_correlation_matrix
                                 THEN correlation_matrix_labels(comparisons) ELSE None]

\* compare_to_multiple_benchmarks(portfolio_returns, benchmark_symbols,
\*     start_date, end_date, include_correlation_matrix)
compare_to_multiple_benchmarks(cache, portfolio_returns, benchmark_symbols, include_correlation_matrix) ==
    LET valid_symbols == SelectSeq(benchmark_symbols, LAMBDA s : s # "")
    IN  IF Len(benchmark_symbols) = 0 THEN [value |-> None, logged |-> "no symbols"]
        ELSE IF Len(portfolio_returns) = 0 THEN [value |-> None, logged |-> "empty"]
        ELSE IF Len(valid_symbols) = 0 THEN [value |-> None, logged |-> "no valid symbols"]
        ELSE multiple_comparison(
                 calculate_metrics(portfolio_returns),
                 successful_comparisons(cache, portfolio_returns, valid_symbols),
                 include_correlation_matrix)

\* BenchmarkData.returns is prices.pct_change().fillna(0): it starts with 0
CachedReturns(pattern, n) ==
    <<Zero>> \o List([i \in 1..(n - 1) |-> pattern[((i - 1) % Len(pattern)) + 1]])

CachedPatterns ==
    {<<Q(1, 100), Q(-1, 100)>>, <<Q(1, 100), Zero>>, <<Q(-1, 50), Q(1, 100)>>}

CachedSeries ==
    {CachedReturns(p, n) : p \in CachedPatterns, n \in {MinDataPoints - 1, MinDataPoints}}

BenchmarkSymbols == {"SPY", "QQQ", "IWM"}

\* SPY and QQQ are cached, the data service has no rows for IWM
InitRankings ==
    /\ \E spy \in CachedSeries, qqq \in CachedSeries, pp \in PortfolioPatterns :
          series = [portfolio_returns |-> ReturnList(pp, MinDataPoints, "none"),
                    benchmark_cache |-> [s \in {"SPY", "QQQ"} |->
                                            IF s = "SPY" THEN spy ELSE qqq]]
    /\ config = NoConfig
    /\ price_data = NoPriceData
    /\ result = NoCall

CompareToMultipleBenchmarks ==
    /\ result = NoCall
    /\ \E first \in BenchmarkSymbols, second \in BenchmarkSymbols \cup {""}, matrix \in BOOLEAN :
          result' = [op |-> "compare_to_multiple_benchmarks",
                     benchmark_symbols |-> <<first, second>>,
                     comparison |-> compare_to_multiple_benchmarks(
                         series.benchmark_cache, series.portfolio_returns,
                         <<first, second>>, matrix)]
    /\ UNCHANGED <<config, price_data, series>>

NextRankings == CompareToMultipleBenchmarks

SpecRankings == InitRankings /\ [][NextRankings]_vars

Ranked ==
    /\ result.op = "compare_to_multiple_benchmarks"
    /\ result.comparison.value # None

RankedMetrics == SeqToSet(positive_metrics) \cup SeqToSet(negative_metrics)

\* the metrics of the benchmark of the k-th successful comparison over the
\* observations compared
BenchmarkMetrics(k) ==
    calculate_metrics(series.benchmark_cache[result.comparison.benchmarks[k].benchmark_symbol])

PortfolioBeats(metric, k) ==
    IF metric \in SeqToSet(positive_metrics)
    THEN Gt(result.comparison.portfolio_metrics[metric], BenchmarkMetrics(k)[metric])
    ELSE Lt(result.comparison.portfolio_metrics[metric], BenchmarkMetrics(k)[metric])

Beaten(metric) ==
    {k \in 1..Len(result.comparison.benchmarks) : PortfolioBeats(metric, k)}

RankOf(metric) == result.comparison.relative_rankings[metric \o "_rank"]

\* C27: for each of the seven ranked metrics the rank compares the
\* portfolio's value of the metric with the value of the same metric of each
\* successfully compared benchmark: it is one more than the number of
\* benchmarks the portfolio beats, and so lies in 1..N+1
C27_RankComparesEachMetric ==
    Ranked =>
        \A metric \in RankedMetrics :
            /\ RankOf(metric) = Cardinality(Beaten(metric)) + 1
            /\ RankOf(metric) \in 1..(Len(result.comparison.benchmarks) + 1)

\* the portfolio's calmar ratio and max drawdown beat those of a benchmark
\* and the two ranks are 1 all the same, while the rank by volatility is not
C27_MissingAttributeRanksFirst ==
    /\ Ranked
    /\ \A metric \in {"calmar_ratio", "max_drawdown"} :
          Beaten(metric) # {} /\ RankOf(metric) = 1
    /\ RankOf("volatility") > 1

----------------------------------------------------------------------------
(* The two drawdown duration calculators on a drawdown series              *)

MaxDrawdownLen == 5

DrawdownSet == {Q(-1, 5), Q(-1, 10), Zero, NaN}

NotCalled == <<>>

InitDuration ==
    /\ \E n \in 0..MaxDrawdownLen : \E dd \in [1..n -> DrawdownSet] :
        series = [drawdown |-> List(dd)]
    /\ config = NoConfig
    /\ price_data = NoPriceData
    /\ result = [op |-> "max_drawdown_duration", metrics |-> NotCalled, engine |-> NotCalled]

\* PerformanceMetricsCalculator()._calculate_max_drawdown_duration(drawdown)
MetricsMaxDrawdownDuration ==
    /\ result.metrics = NotCalled
    /\ result' = [result EXCEPT !.metrics = <<calculate_max_drawdown_duration(series.drawdown)>>]
    /\ UNCHANGED <<config, price_data, series>>

\* BacktestEngine()._calculate_max_drawdown_duration(drawdown)
EngineMaxDrawdownDuration ==
    /\ result.engine = NotCalled
    /\ result' = [result EXCEPT
                      !.engine = <<BacktestEngine_calculate_max_drawdown_duration(series.drawdown)>>]
    /\ UNCHANGED <<config, price_data, series>>

NextDuration == MetricsMaxDrawdownDuration \/ EngineMaxDrawdownDuration

SpecDuration == InitDuration /\ [][NextDuration]_vars

\* the periods a..b are consecutive periods with drawdown < 0
IsRun(dd, a, b) == \A k \in a..b : Lt(dd[k], Zero)

LongestRun(dd) ==
    LET lengths == {b - a + 1 : a \in 1..Len(dd), b \in 1..Len(dd)}
    IN  -MinOfSet({0} \cup {-l : l \in {m \in lengths : \E a \in 1..(Len(dd) - m + 1) : IsRun(dd, a, a + m - 1)}})

DurationsReturned == {result.metrics[k] : k \in 1..Len(result.metrics)} \cup {result.engine[k] : k \in 1..Len(result.engine)}

\* C25: each calculator returns the length of the longest run of
\* consecutive periods with drawdown < 0, a run still open at the end
\* included; the value is 0 exactly when no period has drawdown < 0; the two
\* calculators return the same value.
C25_LongestDrawdownRun ==
    result.op = "max_drawdown_duration" =>
        /\ \A d \in DurationsReturned :
            /\ d = LongestRun(series.drawdown)
            /\ d = 0 <=> ~\E k \in 1..Len(series.drawdown) : Lt(series.drawdown[k], Zero)
        /\ (result.metrics # NotCalled /\ result.engine # NotCalled) => result.metrics = result.engine

\* both calculators have run on a series whose longest run is the one still
\* open at its end
C25_OpenRunCounted ==
    /\ result.op = "max_drawdown_duration"
    /\ result.metrics # NotCalled
    /\ result.engine = result.metrics
    /\ Len(series.drawdown) = MaxDrawdownLen
    /\ Lt(series.drawdown[1], Zero)
    /\ ~Lt(series.drawdown[2], Zero)
    /\ IsRun(series.drawdown, 3, MaxDrawdownLen)
    /\ result.metrics[1] = MaxDrawdownLen - 2

----------------------------------------------------------------------------
(* BacktestValidator and EnhancedBacktestRunner                            *)
(* (src/python/enhanced_backtest_runner.py, src/python/data_service.py)    *)
(* A config dictionary is a record; start_date and end_date are <<>> when  *)
(* missing and <<day>> otherwise.  A message is the sequence of its parts. *)

valid_strategies ==
    {"buy_hold", "momentum", "relative_strength", "mean_reversion",
     "risk_parity", "tactical_allocation", "rotation"}

\* symbols that do not match ^[A-Z0-9.\-]{1,10}$
MalformedSymbols == {"", "NOT A SYMBOL"}

validate_symbol(symbol) == symbol \notin MalformedSymbols

\* pd.Timestamp.now(), as a day number
Today == 400

\* pd.DateOffset(years=20) in days
TwentyYears == 7305

validate_date_range(start_date, end_date) ==
    /\ ~(start_date[1] >= end_date[1])
    /\ ~(start_date[1] < Today - TwentyYears)
    /\ ~(end_date[1] > Today)

When(cond, message) == IF cond THEN <<message>> ELSE <<>>

\* lines 72-75: the allocation passes the range test and is added to the total
allocation_counted(allocation) == ~(Le(allocation, Zero) \/ Gt(allocation, One))

RECURSIVE holding_errors(_)
holding_errors(holdings) ==
    IF holdings = <<>> THEN <<>>
    ELSE When(~validate_symbol(Head(holdings).symbol), "Invalid symbol in holding")
         \o When(~allocation_counted(Head(holdings).allocation), "Invalid allocation in holding")
         \o holding_errors(Tail(holdings))

RECURSIVE total_allocation(_)
total_allocation(holdings) ==
    IF holdings = <<>> THEN Zero
    ELSE IF allocation_counted(holdings[Len(holdings)].allocation)
        THEN Add(total_allocation(SubSeq(holdings, 1, Len(holdings) - 1)),
                 holdings[Len(holdings)].allocation)
    ELSE total_allocation(SubSeq(holdings, 1, Len(holdings) - 1))

portfolio_errors(holdings) ==
    IF Len(holdings) = 0 THEN <<"Portfolio must have at least one holding">>
    ELSE holding_errors(holdings)
         \o When(Gt(AbsQ(Sub(total_allocation(holdings), One)), Q(1, 100)),
                 "Total allocation must sum to 1.0")

date_errors(start_date, end_date) ==
    IF Len(start_date) = 0 \/ Len(end_date) = 0
    THEN <<"start_date and end_date are required">>
    ELSE When(~validate_date_range(start_date, end_date), "Invalid date range")

\* BacktestValidator.validate_config: the errors it collects; it raises
\* ValueError with them when there is one and returns the config otherwise
validate_config(config_dict) ==
    When(Get(config_dict.strategy, "type", "buy_hold") \notin valid_strategies,
         "Invalid strategy type")
    \o portfolio_errors(Get(config_dict.portfolio, "holdings", <<>>))
    \o date_errors(config_dict.start_date, config_dict.end_date)
    \o When(Le(Get(config_dict, "initial_capital", Q(10000, 1)), Zero), "Invalid initial_capital")
    \o When(Get(config_dict, "rebalancing_frequency", "monthly") \notin Frequencies,
            "Invalid rebalancing_frequency")

\* parameters[key] = default when the configured integer is not positive
PositiveOr(parameters, key, default) ==
    IF Get(parameters, key, default) <= 0 THEN Put(parameters, key, default) ELSE parameters

\* parameters[key] = default when the configured float is not positive
PositiveFloatOr(parameters, key, default) ==
    IF Le(Get(parameters, key, default), Zero) THEN Put(parameters, key, default) ELSE parameters

\* parameters[key] = default when the configured float is not in [0, 1]
UnitOr(parameters, key, default) ==
    IF ~(Le(Zero, Get(parameters, key, default)) /\ Le(Get(parameters, key, default), One))
    THEN Put(parameters, key, default) ELSE parameters

validated_parameters(strategy_type, parameters) ==
    IF strategy_type = "momentum"
        THEN PositiveOr(PositiveOr(parameters, "lookback_period", 60), "top_n", 3)
    ELSE IF strategy_type = "mean_reversion"
        THEN PositiveFloatOr(PositiveOr(parameters, "ma_period", 50),
                             "deviation_threshold", Q(1, 10))
    ELSE IF strategy_type = "risk_parity" THEN PositiveOr(parameters, "volatility_window", 60)
    ELSE IF strategy_type = "tactical_allocation"
        THEN UnitOr(UnitOr(parameters, "risk_on_allocation", Q(4, 5)),
                    "risk_off_allocation", Q(1, 5))
    ELSE IF strategy_type = "rotation" THEN PositiveOr(parameters, "number_of_sectors", 3)
    ELSE parameters

\* BacktestValidator.validate_strategy_parameters: the strategy dict as the
\* call leaves and returns it
validate_strategy_parameters(strategy) ==
    Put(strategy, "parameters",
        validated_parameters(Get(strategy, "type", "buy_hold"),
                             Get(strategy, "parameters", EmptyDict)))

RunnerFailure(submitted, cfg, message, fetches, engine_configs) ==
    [op |-> "runner_run_backtest", success |-> FALSE, error |-> message,
     submitted |-> submitted, config |-> cfg,
     fetches |-> fetches, engine_configs |-> engine_configs]

\* lines 234-270: the benchmark lookup (the service holds no benchmark
\* series, so the comparison stays None) and the result dictionary
RunnerSuccess(submitted, cfg, engine_cfg, r) ==
    [op |-> "runner_run_backtest", success |-> TRUE, error |-> <<>>,
     data |-> [portfolio_values |-> r.portfolio_values, returns |-> r.returns,
               dates |-> r.dates, weights |-> r.weights, metrics |-> r.metrics,
               drawdown |-> r.drawdown, benchmark_comparison |-> "None"],
     submitted |-> submitted, config |-> cfg,
     fetches |-> 2, engine_configs |-> <<engine_cfg>>]

\* line 232 on, for the outcome r of the engine; the engine holds the
\* strategy dict of the config dictionary and leaves its writes in it
runner_engine(submitted, cfg, engine_cfg, r) ==
    IF r.exc # "none"
    THEN RunnerFailure(submitted, Put(cfg, "strategy", r.config.strategy),
                       <<"Backtest failed", r.exc>>, 1, <<engine_cfg>>)
    ELSE RunnerSuccess(submitted, Put(cfg, "strategy", r.config.strategy), engine_cfg, r)

\* BacktestConfig(portfolio, strategy, ..., initial_capital, rebalancing_frequency)
BacktestConfig(cfg) ==
    [portfolio |-> cfg.portfolio,
     strategy |-> cfg.strategy,
     initial_capital |-> Get(cfg, "initial_capital", Q(10000, 1)),
     rebalancing_frequency |-> Get(cfg, "rebalancing_frequency", "monthly")]

\* lines 211-232 on the aligned price panel
runner_align(submitted, cfg, aligned_prices) ==
    IF Len(aligned_prices.dates) = 0
    THEN RunnerFailure(submitted, cfg, <<"No common trading dates found across symbols">>,
                       1, <<>>)
    ELSE runner_engine(submitted, cfg, BacktestConfig(cfg),
                       run_backtest(BacktestConfig(cfg), aligned_prices))

\* the requested symbols the data service has a series for
available_symbols(symbols, data) ==
    SelectSeq(symbols, LAMBDA s : s \in SeqToSet(data.columns))

\* lines 195-208: the holdings with data, their allocations divided by
\* their total, written into the holdings and the portfolio of the config
available_holdings(holdings, available) ==
    LET kept == SelectSeq(holdings, LAMBDA h : h.symbol \in SeqToSet(available))
        total == SumSeq(List([k \in 1..Len(kept) |-> kept[k].allocation]))
    IN  List([k \in 1..Len(kept) |->
                 [symbol |-> kept[k].symbol, allocation |-> Div(kept[k].allocation, total)]])

adjust_portfolio(cfg, symbols, available) ==
    IF SeqToSet(symbols) \ SeqToSet(available) # {}
    THEN Put(cfg, "portfolio",
             Put(cfg.portfolio, "holdings", available_holdings(cfg.portfolio.holdings, available)))
    ELSE cfg

\* lines 177-213 for the symbols of the holdings
runner_fetch(submitted, cfg, symbols, data) ==
    IF Len(available_symbols(symbols, data)) = 0
    THEN RunnerFailure(submitted, cfg, <<"No market data could be fetched for any symbols">>,
                       1, <<>>)
    ELSE runner_align(submitted, adjust_portfolio(cfg, symbols, available_symbols(symbols, data)),
                      select_prices(data, available_symbols(symbols, data)))

\* EnhancedBacktestRunner.run_backtest(config_dict) with a data service that
\* serves the panel data: the dictionary returned, the config dictionary as
\* submitted and as the call leaves it, the number of data service requests
\* and the configs handed to the engine
Enhanced_run_backtest(config_dict, data) ==
    IF validate_config(config_dict) # <<>>
    THEN RunnerFailure(config_dict, config_dict,
                       <<"Configuration validation failed">> \o validate_config(config_dict),
                       0, <<>>)
    ELSE runner_fetch(config_dict,
                      Put(config_dict, "strategy",
                          validate_strategy_parameters(config_dict.strategy)),
                      List([k \in 1..Len(config_dict.portfolio.holdings) |->
                               config_dict.portfolio.holdings[k].symbol]),
                      data)

----------------------------------------------------------------------------
(* The runner on submitted configurations                                  *)

HoldingOf(symbol, allocation) == [symbol |-> symbol, allocation |-> allocation]

\* holdings a caller submits: well-formed ones, and ones with an empty list,
\* a malformed symbol, an allocation outside (0, 1] or a wrong total
RunnerHoldings ==
    {<<HoldingOf("AAA", One)>>,
     <<HoldingOf("AAA", Q(3, 5)), HoldingOf("BBB", Q(2, 5))>>,
     <<>>,
     <<HoldingOf("NOT A SYMBOL", One)>>,
     <<HoldingOf("AAA", Q(3, 2))>>,
     <<HoldingOf("AAA", Zero)>>,
     <<HoldingOf("AAA", NaN)>>,
     <<HoldingOf("AAA", Q(3, 5)), HoldingOf("BBB", Q(3, 10))>>}

RunnerStrategies ==
    {[type |-> "buy_hold", parameters |-> EmptyDict],
     [type |-> "unknown", parameters |-> EmptyDict]}
    \cup {[type |-> "momentum", parameters |-> Dict2("lookback_period", l, "top_n", n)] :
            l \in 0..1, n \in 0..1}
    \cup {[type |-> "relative_strength",
           parameters |-> Dict2("lookback_period", l, "top_n", 1)] : l \in 0..1}
    \cup {[type |-> "mean_reversion",
           parameters |-> Dict2("ma_period", l, "deviation_threshold", Q(1, 10))] : l \in 0..1}
    \cup {[type |-> "risk_parity", parameters |-> Dict1("volatility_window", l)] : l \in {0, 2}}
    \cup {[type |-> "tactical_allocation",
           parameters |-> Dict2("ma_period", 1, "risk_on_allocation", a)] :
            a \in {Q(4, 5), Q(3, 2)}}
    \cup {[type |-> "rotation", parameters |-> Dict1("number_of_sectors", n)] : n \in 0..1}

\* <<start_date, end_date>>
RunnerDateRanges == {<<<<7>>, <<14>>>>, <<<<14>>, <<7>>>>, <<<<>>, <<14>>>>}

MaxRunnerDates == 2

InitRunner ==
    /\ \E st \in RunnerStrategies, h \in RunnerHoldings, dr \in RunnerDateRanges,
          capital \in {InitialCapital, Zero}, f \in {"daily", "weekly", "hourly"},
          n \in 1..MaxSymbols :
        /\ config = [portfolio |-> [holdings |-> h],
                     strategy |-> st,
                     start_date |-> dr[1],
                     end_date |-> dr[2],
                     initial_capital |-> capital,
                     rebalancing_frequency |-> f]
        /\ price_data \in Panels(n, MaxRunnerDates, 7)
    /\ series = NoSeries
    /\ result = NoCall

\* result = EnhancedBacktestRunner().run_backtest(config)
RunnerRunBacktest ==
    /\ result = NoCall
    /\ result' = Enhanced_run_backtest(config, price_data)
    /\ config' = result'.config
    /\ UNCHANGED <<price_data, series>>

NextRunner == RunnerRunBacktest

SpecRunner == InitRunner /\ [][NextRunner]_vars

RunnerReturned == result.op = "runner_run_backtest"

AllocationInRange(allocation) == Gt(allocation, Zero) /\ Le(allocation, One)

AllocationTotal(holdings) == SumSeq(List([k \in 1..Len(holdings) |-> holdings[k].allocation]))

\* a configuration that is invalid in one of the listed ways
InvalidConfiguration(c) ==
    \/ c.strategy.type \notin valid_strategies
    \/ c.portfolio.holdings = <<>>
    \/ \E k \in 1..Len(c.portfolio.holdings) : ~AllocationInRange(c.portfolio.holdings[k].allocation)
    \/ ~Le(AbsQ(Sub(AllocationTotal(c.portfolio.holdings), One)), Q(1, 100))
    \/ Len(c.start_date) = 0 \/ Len(c.end_date) = 0 \/ c.start_date[1] >= c.end_date[1]
    \/ Le(c.initial_capital, Zero)
    \/ c.rebalancing_frequency \notin Frequencies

RejectedBeforeComputation ==
    /\ ~result.success
    /\ result.error # <<>>
    /\ result.fetches = 0
    /\ result.engine_configs = <<>>

\* C16: a configuration with an unknown strategy type, no holdings, an
\* allocation outside (0, 1], a total allocation off 1 by more than 0.01, an
\* invalid date range, a non-positive initial capital or an unknown frequency
\* is answered with a failure that carries a message, without a data request
\* and without a call of the engine.
C16_ValidationPrecedesComputation ==
    (RunnerReturned /\ InvalidConfiguration(result.submitted)) => RejectedBeforeComputation

\* a holding whose allocation is NaN passes validation: data is requested and
\* the engine is called
C16_NaNAllocationReachesEngine ==
    /\ RunnerReturned
    /\ \E k \in 1..Len(result.submitted.portfolio.holdings) :
        IsNaN(result.submitted.portfolio.holdings[k].allocation)
    /\ result.fetches > 0
    /\ Len(result.engine_configs) = 1

\* the integer parameters of each strategy type that must be positive
PositiveParameters(type) ==
    IF type \in {"momentum", "relative_strength"} THEN {"lookback_period", "top_n"}
    ELSE IF type = "mean_reversion" THEN {"ma_period"}
    ELSE IF type = "risk_parity" THEN {"volatility_window"}
    ELSE {}

UnitParameters(type) ==
    IF type = "tactical_allocation" THEN {"risk_on_allocation", "risk_off_allocation"} ELSE {}

InvalidParameter(strategy) ==
    \/ \E key \in PositiveParameters(strategy.type) \cap DOMAIN strategy.parameters :
        strategy.parameters[key] <= 0
    \/ \E key \in UnitParameters(strategy.type) \cap DOMAIN strategy.parameters :
        ~(Le(Zero, strategy.parameters[key]) /\ Le(strategy.parameters[key], One))

\* C17: an invalid strategy parameter is answered with a failure that carries
\* a message, before any data request and any weight computation, and the
\* engine never runs with a value of a submitted parameter other than the
\* submitted one.
C17_InvalidParameterRejected ==
    RunnerReturned =>
        /\ InvalidParameter(result.submitted.strategy) => RejectedBeforeComputation
        /\ \A k \in 1..Len(result.engine_configs) :
            \A key \in DOMAIN result.submitted.strategy.parameters :
                result.engine_configs[k].strategy.parameters[key]
                    = result.submitted.strategy.parameters[key]

\* momentum submitted with lookback_period 0: the backtest succeeds, run by
\* the engine with lookback_period 60
C17_DefaultSubstituted ==
    /\ RunnerReturned
    /\ result.success
    /\ result.submitted.strategy.type = "momentum"
    /\ result.submitted.strategy.parameters.lookback_period = 0
    /\ Len(result.engine_configs) = 1
    /\ result.engine_configs[1].strategy.parameters.lookback_period = 60

----------------------------------------------------------------------------
(* The benchmark step of EnhancedBacktestRunner.run_backtest               *)
(* (src/python/enhanced_backtest_runner.py lines 234-310).  The benchmark  *)
(* request of the data service raises, returns None or returns a frame of  *)
(* prices; a comparison that is None is the record [value |-> None].       *)

\* benchmark_prices.pct_change().fillna(0).tolist()
benchmark_pct_change(prices) ==
    List([t \in 1..Len(prices) |->
             IF t = 1 THEN Zero
             ELSE IF IsNaN(Sub(Div(prices[t], prices[t - 1]), One)) THEN Zero
             ELSE Sub(Div(prices[t], prices[t - 1]), One)])

\* _calculate_benchmark_comparison without its try ... except: the exception
\* of the data service propagates
calculate_benchmark_comparison_uncaught(portfolio_returns, benchmark_data) ==
    IF benchmark_data.status = "raises"
    THEN [exc |-> "ConnectionError", comparison |-> [value |-> None]]
    ELSE IF benchmark_data.status = "none" \/ Len(benchmark_data.prices) = 0
    THEN [exc |-> "none", comparison |-> [value |-> None]]
    ELSE [exc |-> "none",
          comparison |-> calculate_benchmark_comparison(
              portfolio_returns, benchmark_pct_change(benchmark_data.prices))]

\* _calculate_benchmark_comparison(portfolio_returns, start_date, end_date):
\* the exception raised, if any, and the comparison returned
runner_calculate_benchmark_comparison(portfolio_returns, benchmark_data) ==
    \* except Exception: the error is logged and None is returned
    IF benchmark_data.status = "raises"
    THEN [exc |-> "none", comparison |-> [value |-> None]]
    ELSE IF benchmark_data.status = "none" \/ Len(benchmark_data.prices) = 0
    THEN [exc |-> "none", comparison |-> [value |-> None]]
    ELSE [exc |-> "none",
          comparison |-> calculate_benchmark_comparison(
              portfolio_returns, benchmark_pct_change(benchmark_data.prices))]

\* lines 243-279 for the outcome of the benchmark step: an exception of the
\* step is answered by the except clause of run_backtest
runner_with_comparison(outcome, step) ==
    IF step.exc # "none"
    THEN RunnerFailure(outcome.submitted, outcome.config, <<"Backtest failed", step.exc>>,
                       2, outcome.engine_configs)
    ELSE [outcome EXCEPT !.data.benchmark_comparison =
                             IF step.comparison.value = None THEN [value |-> None]
                             ELSE step.comparison]

\* lines 234-242 for the outcome of the lines before them
runner_benchmark_step(outcome, include_benchmark, benchmark_data) ==
    IF ~outcome.success THEN outcome
    ELSE IF ~include_benchmark
    THEN [outcome EXCEPT !.data.benchmark_comparison = [value |-> None], !.fetches = 1]
    ELSE runner_with_comparison(
             outcome,
             runner_calculate_benchmark_comparison(outcome.data.returns, benchmark_data))

\* EnhancedBacktestRunner.run_backtest(config_dict) with a data service that
\* serves the panel data and answers the benchmark request with benchmark_data
Enhanced_run_backtest_benchmark(config_dict, data, benchmark_data) ==
    runner_benchmark_step(Enhanced_run_backtest(config_dict, data),
                          Get(config_dict, "include_benchmark", TRUE),
                          benchmark_data)

PatternList(pattern, n) == List([t \in 1..n |-> pattern[((t - 1) % Len(pattern)) + 1]])

PricePatterns == {<<Q(1, 1), Q(2, 1)>>, <<Q(2, 1), Q(1, 1)>>, <<Q(1, 1), Q(1, 1)>>}

\* panels of AAA over 2 and over MinDataPoints business days
BenchmarkStepPanels ==
    {[dates |-> BusinessDays(7, n),
      columns |-> <<"AAA">>,
      prices |-> List([t \in 1..n |-> <<PatternList(p, n)[t]>>])] :
        p \in PricePatterns, n \in {2, MinDataPoints}}

BenchmarkAnswers ==
    {[status |-> "raises"], [status |-> "none"], [status |-> "frame", prices |-> <<>>]}
    \cup {[status |-> "frame", prices |-> PatternList(p, n)] :
            p \in PricePatterns, n \in {2, MinDataPoints, MinDataPoints + 1}}

BenchmarkStepStrategies ==
    {[type |-> "buy_hold", parameters |-> EmptyDict],
     [type |-> "unknown", parameters |-> EmptyDict],
     [type |-> "momentum", parameters |-> Dict2("lookback_period", 1, "positive_returns_only", TRUE)]}

BenchmarkStepHoldings ==
    {<<HoldingOf("AAA", One)>>,
     <<HoldingOf("AAA", Q(3, 5)), HoldingOf("BBB", Q(2, 5))>>,
     <<HoldingOf("BBB", One)>>}

WithIncludeBenchmark(config_dict, include) ==
    IF include = "absent" THEN config_dict
    ELSE Put(config_dict, "include_benchmark", include = "True")

InitBenchmarkStep ==
    /\ \E st \in BenchmarkStepStrategies, h \in BenchmarkStepHoldings,
          include \in {"absent", "True", "False"} :
          config = WithIncludeBenchmark(
                       [portfolio |-> [holdings |-> h],
                        strategy |-> st,
                        start_date |-> <<7>>,
                        end_date |-> <<21>>,
                        initial_capital |-> InitialCapital,
                        rebalancing_frequency |-> "daily"], include)
    /\ price_data \in BenchmarkStepPanels
    /\ \E answer \in BenchmarkAnswers : series = [benchmark_data |-> answer]
    /\ result = NoCall

\* result = EnhancedBacktestRunner().run_backtest(config)
RunnerRunBacktestBenchmark ==
    /\ result = NoCall
    /\ result' = Enhanced_run_backtest_benchmark(config, price_data, series.benchmark_data)
    /\ config' = result'.config
    /\ UNCHANGED <<price_data, series>>

NextBenchmarkStep == RunnerRunBacktestBenchmark

SpecBenchmarkStep == InitBenchmarkStep /\ [][NextBenchmarkStep]_vars

IncludesBenchmark == Get(result.submitted, "include_benchmark", TRUE)

\* the same call with include_benchmark = False
WithoutBenchmark ==
    Enhanced_run_backtest_benchmark(Put(result.submitted, "include_benchmark", FALSE),
                                    price_data, series.benchmark_data)

ResultFields == {"portfolio_values", "returns", "dates", "weights", "metrics", "drawdown"}

\* the benchmark request fails or has no rows, one of the two series is
\* shorter than ten observations, or the comparison of the two fails
BenchmarkUnavailable ==
    \/ series.benchmark_data.status # "frame"
    \/ Len(series.benchmark_data.prices) < MinDataPoints
    \/ Len(result.data.returns) < MinDataPoints
    \/ calculate_benchmark_comparison(
           result.data.returns,
           benchmark_pct_change(series.benchmark_data.prices)).logged = "IndexingError"

SameResults(a, b) ==
    /\ a.success = b.success
    /\ a.success => \A f \in ResultFields : a.data[f] = b.data[f]
    /\ ~a.success => a.error = b.error

\* C30: the benchmark step neither fails a backtest nor alters its results:
\* the call returns the success flag, dates, weights, returns, values,
\* drawdown and metrics of the same call with include_benchmark = False, and
\* benchmark_comparison = None when the benchmark is unavailable; every
\* failure is returned as success = False with an error message
C30_BenchmarkStepIsHarmless ==
    RunnerReturned =>
        /\ SameResults(result, WithoutBenchmark)
        /\ (result.success /\ BenchmarkUnavailable) =>
              result.data.benchmark_comparison.value = None
        /\ ~result.success => result.error # <<>>

\* the benchmark request raises in a call that asks for the benchmark, and
\* the backtest succeeds over ten dates without a comparison
C30_BenchmarkRequestRaises ==
    /\ RunnerReturned
    /\ IncludesBenchmark
    /\ series.benchmark_data.status = "raises"
    /\ result.success
    /\ Len(result.data.dates) = MinDataPoints
    /\ result.data.benchmark_comparison.value = None

====
